---- MODULE Spec2Model ----
(***************************************************************************)
(* A model of rego, a Redis-compatible server written in Go: the stream    *)
(* commands, the transaction queue, the write-propagation pipeline of the  *)
(* primary and the replication driver of the replica.                      *)
(*                                                                         *)
(* Texts that the code parses (stream IDs) are sequences of one-character  *)
(* strings, so that strings.Split, strconv.ParseInt and fmt.Sprintf are    *)
(* operators that compute what the Go functions compute.                   *)
(***************************************************************************)
EXTENDS Integers, Sequences, FiniteSets, TLC

(***************************************************************************)
(* Bounds of the model.                                                    *)
(***************************************************************************)
\* longest stream-ID text a client sends to XADD
MaxIdLen == 3
\* most entries a stream holds before XADD is no longer issued
MaxEntries == 3
\* the wall clock (milliseconds) runs from 1 to MaxNow
MaxNow == 2

(***************************************************************************)
(* Go library functions on texts.                                          *)
(***************************************************************************)
Digits == <<"0", "1", "2", "3", "4", "5", "6", "7", "8", "9">>

IsDigit(c) == \E i \in 1..10 : Digits[i] = c

DigitVal(c) == (CHOOSE i \in 1..10 : Digits[i] = c) - 1

\* the value of a non-empty sequence of digits
RECURSIVE DigitsVal(_)
DigitsVal(s) ==
    IF Len(s) = 0 THEN 0
    ELSE 10 * DigitsVal(SubSeq(s, 1, Len(s) - 1)) + DigitVal(s[Len(s)])

AllDigits(s) == Len(s) > 0 /\ \A i \in 1..Len(s) : IsDigit(s[i])

\* strconv.ParseInt(s, 10, 64): an optional sign, then one digit or more
ParseInt(s) ==
    IF Len(s) > 0 /\ s[1] \in {"+", "-"}
    THEN IF AllDigits(Tail(s))
         THEN [ok |-> TRUE,
               val |-> IF s[1] = "-" THEN 0 - DigitsVal(Tail(s)) ELSE DigitsVal(Tail(s))]
         ELSE [ok |-> FALSE, val |-> 0]
    ELSE IF AllDigits(s)
         THEN [ok |-> TRUE, val |-> DigitsVal(s)]
         ELSE [ok |-> FALSE, val |-> 0]

\* the decimal digits of n >= 0
RECURSIVE NatText(_)
NatText(n) ==
    IF n < 10 THEN <<Digits[n + 1]>>
    ELSE Append(NatText(n \div 10), Digits[(n % 10) + 1])

\* the decimal digits of n <= 0, the smallest integer included
RECURSIVE NegText(_)
NegText(n) ==
    LET digit == (10 - (n % 10)) % 10
    IN IF n > -10 THEN <<Digits[digit + 1]>>
       ELSE Append(NegText((n + digit) \div 10), Digits[digit + 1])

\* fmt.Sprintf("%d", n), strconv.Itoa, strconv.FormatInt(n, 10)
FormatInt(n) == IF n < 0 THEN <<"-">> \o NegText(n) ELSE NatText(n)

\* strings.HasSuffix(s, suffix)
HasSuffix(s, suffix) ==
    /\ Len(s) >= Len(suffix)
    /\ SubSeq(s, Len(s) - Len(suffix) + 1, Len(s)) = suffix

\* strings.TrimSuffix(s, suffix)
TrimSuffix(s, suffix) ==
    IF HasSuffix(s, suffix) THEN SubSeq(s, 1, Len(s) - Len(suffix)) ELSE s

\* strings.Split(s, sep) for a one-character separator: the parts between
\* the separators, one part (the whole text) when there is none
RECURSIVE Split(_, _)
Split(s, sep) ==
    IF \A i \in 1..Len(s) : s[i] # sep THEN <<s>>
    ELSE LET i == CHOOSE j \in 1..Len(s) :
                      s[j] = sep /\ \A h \in 1..(j - 1) : s[h] # sep
         IN <<SubSeq(s, 1, i - 1)>> \o Split(SubSeq(s, i + 1, Len(s)), sep)

\* len(s) of a text: a text is a sequence of chunks, one character each
\* where the code reads it character by character (IDs, numbers), the whole
\* word where it only compares or copies it (command names, messages)
RECURSIVE StrLen(_)
StrLen(s) == IF Len(s) = 0 THEN 0 ELSE Len(Head(s)) + StrLen(Tail(s))

(***************************************************************************)
(* resp.go: RESP values and their wire format.                             *)
(***************************************************************************)
SimpleString == "+"
Error == "-"
Integer == ":"
BulkString == "$"
Array == "*"

\* RESP{}: the zero value of the struct
ZeroRESP == [Type |-> "", String |-> <<>>, Number |-> 0, Array |-> <<>>]

NewSimpleString(str) == [ZeroRESP EXCEPT !.Type = SimpleString, !.String = str]
NewError(err) == [ZeroRESP EXCEPT !.Type = Error, !.String = err]
NewInteger(num) == [ZeroRESP EXCEPT !.Type = Integer, !.Number = num]
NewBulkString(str) == [ZeroRESP EXCEPT !.Type = BulkString, !.String = str]
NewArray(items) == [ZeroRESP EXCEPT !.Type = Array, !.Array = items]
NewNullBulkString == [ZeroRESP EXCEPT !.Type = BulkString, !.Number = -1]
NewNullArray == [ZeroRESP EXCEPT !.Type = Array, !.Number = -1]

\* len(r.Marshal()): the number of bytes of r on the wire
RECURSIVE MarshalLen(_)
MarshalLen(r) ==
    LET SumLen[i \in 0..Len(r.Array)] ==
            IF i = 0 THEN 0 ELSE SumLen[i - 1] + MarshalLen(r.Array[i])
    IN CASE r.Type = SimpleString -> 1 + StrLen(r.String) + 2
         [] r.Type = Error -> 1 + StrLen(r.String) + 2
         [] r.Type = Integer -> 1 + Len(FormatInt(r.Number)) + 2
         [] r.Type = BulkString ->
                IF r.String = <<>> /\ r.Number = -1 THEN 5
                ELSE 1 + Len(FormatInt(StrLen(r.String))) + 2 + StrLen(r.String) + 2
         [] r.Type = Array ->
                IF Len(r.Array) = 0 /\ r.Number = -1 THEN 5
                ELSE 1 + Len(FormatInt(Len(r.Array))) + 2 + SumLen[Len(r.Array)]
         [] OTHER -> 0

CRLF == <<"\r", "\n">>

\* the bytes of the values of items one after another
RECURSIVE MarshalAll(_, _)

\* a Marshal without the two tests for the null values
MarshalWithoutNull(r) ==
    CASE r.Type = SimpleString -> <<"+">> \o r.String \o CRLF
      [] r.Type = Error -> <<"-">> \o r.String \o CRLF
      [] r.Type = Integer -> <<":">> \o FormatInt(r.Number) \o CRLF
      [] r.Type = BulkString ->
             <<"$">> \o FormatInt(Len(r.String)) \o CRLF \o r.String \o CRLF
      [] r.Type = Array ->
             <<"*">> \o FormatInt(Len(r.Array)) \o CRLF \o MarshalAll(r.Array, 1)
      [] OTHER -> <<>>

\* r.Marshal() of a value whose texts are one character a chunk: its bytes
Marshal(r) ==
    CASE r.Type = SimpleString -> <<"+">> \o r.String \o CRLF
      [] r.Type = Error -> <<"-">> \o r.String \o CRLF
      [] r.Type = Integer -> <<":">> \o FormatInt(r.Number) \o CRLF
      [] r.Type = BulkString ->
             IF r.String = <<>> /\ r.Number = -1 THEN <<"$", "-", "1">> \o CRLF
             ELSE <<"$">> \o FormatInt(Len(r.String)) \o CRLF \o r.String \o CRLF
      [] r.Type = Array ->
             IF Len(r.Array) = 0 /\ r.Number = -1 THEN <<"*", "-", "1">> \o CRLF
             ELSE <<"*">> \o FormatInt(Len(r.Array)) \o CRLF
                      \o MarshalAll(r.Array, 1)
      [] OTHER -> <<>>

MarshalAll(items, i) ==
    IF i > Len(items) THEN <<>> ELSE Marshal(items[i]) \o MarshalAll(items, i + 1)

\* what a parser returns: the value and the bytes after it, or an error; or
\* it does not return, the goroutine panics
ParseOk(value, rest) ==
    [ok |-> TRUE, panic |-> FALSE, value |-> value, rest |-> rest]
ParseError == [ok |-> FALSE, panic |-> FALSE, value |-> ZeroRESP, rest |-> <<>>]
ParsePanic == [ok |-> FALSE, panic |-> TRUE, value |-> ZeroRESP, rest |-> <<>>]

\* readLine(reader): the bytes up to the first CR, which LF must follow
readLine(bytes) ==
    LET IsFirstCR(i) == bytes[i] = "\r" /\ \A j \in 1..(i - 1) : bytes[j] # "\r"
        At(i) ==
            IF i = Len(bytes) \/ bytes[i + 1] # "\n" THEN ParseError
            ELSE ParseOk(SubSeq(bytes, 1, i - 1), SubSeq(bytes, i + 2, Len(bytes)))
    IN IF \A i \in 1..Len(bytes) : bytes[i] # "\r" THEN ParseError
       ELSE At(CHOOSE i \in 1..Len(bytes) : IsFirstCR(i))

\* parseBulkString(reader) after the line with the length: the two bytes
\* after the data are read and not looked at, and `make([]byte, length)` of a
\* negative length panics
parseBulkString(line) ==
    LET length == ParseInt(line.value)
        Data(n, rest) ==
            IF n < 0 THEN ParsePanic
            ELSE IF Len(rest) < n + 2 THEN ParseError
            ELSE ParseOk(NewBulkString(SubSeq(rest, 1, n)),
                        SubSeq(rest, n + 3, Len(rest)))
    IN IF ~line.ok \/ ~length.ok THEN ParseError
       ELSE IF length.val = -1 THEN ParseOk(NewNullBulkString, line.rest)
       ELSE Data(length.val, line.rest)

RECURSIVE Parse(_)

\* the loop of parseArray: count values are parsed and appended to items
RECURSIVE ParseItems(_, _, _)
ParseItems(bytes, count, items) ==
    IF count = 0 THEN ParseOk(NewArray(items), bytes)
    ELSE LET Item(item) ==
                 IF ~item.ok THEN item
                 ELSE ParseItems(item.rest, count - 1, Append(items, item.value))
         IN Item(Parse(bytes))

\* parseArray(reader) after the line with the count; `make([]RESP, 0, count)`
\* of a negative count panics
parseArray(line) ==
    LET count == ParseInt(line.value)
    IN IF ~line.ok \/ ~count.ok THEN ParseError
       ELSE IF count.val = -1 THEN ParseOk(NewNullArray, line.rest)
       ELSE IF count.val < 0 THEN ParsePanic
       ELSE ParseItems(line.rest, count.val, <<>>)

\* Parse(reader): the first value of bytes and the bytes after it
Parse(bytes) ==
    LET Line(line, New(_)) ==
            IF ~line.ok THEN ParseError ELSE ParseOk(New(line.value), line.rest)
        Number(line) ==
            IF ~line.ok \/ ~ParseInt(line.value).ok THEN ParseError
            ELSE ParseOk(NewInteger(ParseInt(line.value).val), line.rest)
    IN IF Len(bytes) = 0 THEN ParseError
       ELSE CASE bytes[1] = SimpleString -> Line(readLine(Tail(bytes)), NewSimpleString)
              [] bytes[1] = Error -> Line(readLine(Tail(bytes)), NewError)
              [] bytes[1] = Integer -> Number(readLine(Tail(bytes)))
              [] bytes[1] = BulkString -> parseBulkString(readLine(Tail(bytes)))
              [] bytes[1] = Array -> parseArray(readLine(Tail(bytes)))
              [] OTHER -> ParseError

(***************************************************************************)
(* key-value-store.go, stream.go: the store maps a key to a string or to a *)
(* stream; an absent key maps to NoValue.                                  *)
(***************************************************************************)
NoValue == [type |-> "none"]
StringValue(str) == [type |-> "string", str |-> str]
StreamValue(entries) == [type |-> "stream", Entries |-> entries]

\* NewKeyValueStore: data maps every key to its value (NoValue: no entry),
\* expiryMap maps the keys that expire to their instant
NewKeyValueStore(keys) ==
    [data |-> [k \in keys |-> NoValue], expiryMap |-> [k \in {} |-> 0]]

\* the condition `hasExpiry && time.Now().After(expiry)` of the readers
Expired(st, key, nowMs) ==
    key \in DOMAIN st.expiryMap /\ nowMs > st.expiryMap[key]

\* KeyValueStore.GetStream: the entries of the stream at key, exists
GetStream(st, key, nowMs) ==
    IF Expired(st, key, nowMs) THEN [stream |-> <<>>, exists |-> FALSE]
    ELSE IF st.data[key].type = "stream"
    THEN [stream |-> st.data[key].Entries, exists |-> TRUE]
    ELSE [stream |-> <<>>, exists |-> FALSE]

\* a Get that does not look at the expiry of the key
GetUnexpired(st, key, nowMs) ==
    IF st.data[key].type = "string"
    THEN [value |-> st.data[key].str, exists |-> TRUE]
    ELSE [value |-> <<>>, exists |-> FALSE]

\* KeyValueStore.Get: the string at key, exists
Get(st, key, nowMs) ==
    IF Expired(st, key, nowMs) THEN [value |-> <<>>, exists |-> FALSE]
    ELSE IF st.data[key].type = "string"
    THEN [value |-> st.data[key].str, exists |-> TRUE]
    ELSE [value |-> <<>>, exists |-> FALSE]

\* KeyValueStore.Exists
Exists(st, key, nowMs) ==
    IF st.data[key].type = "none" THEN FALSE
    ELSE ~Expired(st, key, nowMs)

\* KeyValueStore.Keys: the keys of data that have not expired; the order of
\* the slice is the order of the map, which the readers here do not look at
StoreKeys(st, nowMs) ==
    {key \in DOMAIN st.data : st.data[key].type # "none" /\ ~Expired(st, key, nowMs)}

\* KeyValueStore.GetType
GetType(st, key, nowMs) ==
    IF ~Exists(st, key, nowMs) THEN <<"none">>
    ELSE IF st.data[key].type = "string" THEN <<"string">>
    ELSE IF st.data[key].type = "stream" THEN <<"stream">>
    ELSE <<"none">>

\* a deleteExpiredKey that does not look at the expiry again
deleteKeyUnchecked(st, key, nowMs) ==
    [data |-> [st.data EXCEPT ![key] = NoValue],
     expiryMap |-> [k \in DOMAIN st.expiryMap \ {key} |-> st.expiryMap[k]]]

\* deleteExpiredKey(key), the goroutine the readers start for a key they
\* find expired: the key is deleted if it is still expired when it runs
DeleteExpiredKey(st, key, nowMs) ==
    IF Expired(st, key, nowMs)
    THEN [data |-> [st.data EXCEPT ![key] = NoValue],
          expiryMap |-> [k \in DOMAIN st.expiryMap \ {key} |-> st.expiryMap[k]]]
    ELSE st

\* one round of cleanupExpiredKeys: every expired key is deleted
CleanupExpiredKeys(st, nowMs) ==
    [data |-> [key \in DOMAIN st.data |->
                  IF Expired(st, key, nowMs) THEN NoValue ELSE st.data[key]],
     expiryMap |-> [k \in {key \in DOMAIN st.expiryMap : ~Expired(st, key, nowMs)}
                       |-> st.expiryMap[k]]]

\* KeyValueStore.Set(key, value, expiry), expiry in milliseconds, 0 for none
Set(st, key, value, expiry, nowMs) ==
    [data |-> [st.data EXCEPT ![key] = value],
     expiryMap |->
         IF expiry > 0
         THEN [k \in DOMAIN st.expiryMap \cup {key} |->
                   IF k = key THEN nowMs + expiry ELSE st.expiryMap[k]]
         ELSE [k \in DOMAIN st.expiryMap \ {key} |-> st.expiryMap[k]]]

(***************************************************************************)
(* handler.go: XADD.                                                       *)
(***************************************************************************)
ErrZeroID == "ID must be greater than 0-0"
ErrNotGreater == "ID is not greater than last entry"

\* a parseStreamID that takes every ID of the form ms-seq as it is
parseStreamIDUnchecked(id, lastID, nowMs) ==
    LET parts == Split(id, "-")
    IN IF Len(parts) = 2 /\ ParseInt(parts[1]).ok /\ ParseInt(parts[2]).ok
       THEN [ms |-> ParseInt(parts[1]).val, seq |-> ParseInt(parts[2]).val,
             autoSeq |-> FALSE, err |-> ""]
       ELSE [ms |-> 0, seq |-> 0, autoSeq |-> FALSE,
             err |-> "invalid stream ID format"]

\* parseStreamID(id, lastID), reading the clock as nowMs
parseStreamID(id, lastID, nowMs) ==
    LET Fail(e) == [ms |-> 0, seq |-> 0, autoSeq |-> FALSE, err |-> e]
        Ok(m, s, a) == [ms |-> m, seq |-> s, autoSeq |-> a, err |-> ""]
        \* the form ms-*
        AutoSeq(ms) ==
            IF ~ms.ok THEN Fail("invalid millsencods part")
            ELSE IF ms.val = 0 THEN Ok(0, 1, TRUE)
            ELSE Ok(ms.val, 0, TRUE)
        \* the comparison with the last ID
        Compare(ms, seq, lastMs, lastSeq) ==
            IF ~lastMs.ok THEN Fail("invalid last milliseconds part")
            ELSE IF ~lastSeq.ok THEN Fail("invalid last sequence part")
            ELSE IF \/ ms.val < lastMs.val
                    \/ ms.val = lastMs.val /\ seq.val <= lastSeq.val
            THEN Fail(ErrNotGreater)
            ELSE Ok(ms.val, seq.val, FALSE)
        WithLast(ms, seq, lastParts) ==
            IF Len(lastParts) # 2 THEN Fail("invalid last stream ID format")
            ELSE Compare(ms, seq, ParseInt(lastParts[1]), ParseInt(lastParts[2]))
        \* the form ms-seq
        Explicit(ms, seq) ==
            IF ~ms.ok THEN Fail("invalid millsencods part")
            ELSE IF ~seq.ok THEN Fail("invalid sequence part")
            ELSE IF ms.val = 0 /\ seq.val = 0 THEN Fail(ErrZeroID)
            ELSE IF lastID # <<>> THEN WithLast(ms, seq, Split(lastID, "-"))
            ELSE Ok(ms.val, seq.val, FALSE)
        Parts(parts) ==
            IF Len(parts) # 2 THEN Fail("invalid stream ID format")
            ELSE Explicit(ParseInt(parts[1]), ParseInt(parts[2]))
    IN IF id = <<"*">> THEN Ok(nowMs, 0, TRUE)
       ELSE IF HasSuffix(id, <<"-", "*">>)
       THEN AutoSeq(ParseInt(TrimSuffix(id, <<"-", "*">>)))
       ELSE Parts(Split(id, "-"))

\* the loop of xaddCommand over the entries: the largest sequence number
\* among the entries whose millisecond part is ms, -1 when there is none
MaxSeqOf(entries, ms) ==
    LET EntrySeq(e) ==
            LET entryParts == Split(e.ID, "-")
            IN IF Len(entryParts) = 2 /\ ParseInt(entryParts[1]).val = ms
               THEN ParseInt(entryParts[2]).val
               ELSE -1
        Scan[i \in 0..Len(entries)] ==
            IF i = 0 THEN -1
            ELSE IF EntrySeq(entries[i]) > Scan[i - 1]
                 THEN EntrySeq(entries[i]) ELSE Scan[i - 1]
    IN Scan[Len(entries)]

\* the map the loop `fields[fieldName] = fieldValue` builds from the
\* arguments after the ID: a set of (name, value) pairs, one per name
FieldsOf(args) ==
    LET Build[i \in 0..((Len(args) - 2) \div 2)] ==
            IF i = 0 THEN {}
            ELSE {p \in Build[i - 1] : p[1] # args[2 * i + 1].String}
                     \cup {<<args[2 * i + 1].String, args[2 * i + 2].String>>}
    IN Build[(Len(args) - 2) \div 2]

\* xaddCommand(args) on the store st: the reply and the store afterwards
xaddCommand(st, args, nowMs) ==
    LET Reply(r) == [reply |-> r, store |-> st]
        \* the entry is appended unless its ID is in the stream
        AddEntry(key, stream, newID) ==
            IF \E i \in 1..Len(stream) : stream[i].ID = newID
            THEN Reply(NewError(
                   <<"ERR The ID specified in XADD already exists in the target stream">>))
            ELSE [reply |-> NewBulkString(newID),
                  store |-> Set(st, key,
                                StreamValue(Append(stream,
                                    [ID |-> newID, Fields |-> FieldsOf(args)])),
                                0, nowMs)]
        WithSeq(key, id, stream, p, seq) ==
            AddEntry(key, stream,
                     IF p.autoSeq THEN FormatInt(p.ms) \o <<"-">> \o FormatInt(seq)
                     ELSE id)
        Parsed(key, id, stream, p) ==
            IF p.err # ""
            THEN IF p.err = ErrZeroID
                 THEN Reply(NewError(
                          <<"ERR The ID specified in XADD must be greater than 0-0">>))
                 ELSE IF p.err = ErrNotGreater
                 THEN Reply(NewError(
                          <<"ERR The ID specified in XADD is equal or smaller than the target stream top item">>))
                 ELSE Reply(NewError(
                          <<"ERR invalid stream ID specified as stream command argument">>))
            ELSE WithSeq(key, id, stream, p,
                         IF p.autoSeq /\ HasSuffix(id, <<"-", "*">>)
                         THEN IF p.ms = 0 THEN 1 ELSE MaxSeqOf(stream, p.ms) + 1
                         ELSE p.seq)
        OnStream(key, id, stream) ==
            Parsed(key, id, stream,
                   parseStreamID(id,
                                 IF Len(stream) > 0 THEN stream[Len(stream)].ID
                                 ELSE <<>>,
                                 nowMs))
    IN IF Len(args) < 3
       THEN Reply(NewError(<<"ERR wrong number of arguments for 'xadd' command">>))
       ELSE IF (Len(args) - 2) % 2 # 0
       THEN Reply(NewError(<<"ERR wrong number of arguments for 'xadd' command">>))
       ELSE OnStream(args[1].String, args[2].String,
                     GetStream(st, args[1].String, nowMs).stream)

\* splitStreamID(id)
splitStreamID(id) ==
    LET parts == Split(id, "-")
    IN IF Len(parts) # 2 THEN [ms |-> 0, seq |-> 0, ok |-> FALSE]
       ELSE IF ~ParseInt(parts[1]).ok THEN [ms |-> 0, seq |-> 0, ok |-> FALSE]
       ELSE IF ~ParseInt(parts[2]).ok THEN [ms |-> 0, seq |-> 0, ok |-> FALSE]
       ELSE [ms |-> ParseInt(parts[1]).val, seq |-> ParseInt(parts[2]).val,
             ok |-> TRUE]

\* compareStreamIDs(ms1, seq1, ms2, seq2)
compareStreamIDs(ms1, seq1, ms2, seq2) ==
    IF ms1 < ms2 THEN -1
    ELSE IF ms1 > ms2 THEN 1
    ELSE IF seq1 < seq2 THEN -1
    ELSE IF seq1 > seq2 THEN 1
    ELSE 0

(***************************************************************************)
(* handler.go: the registry and the handlers that only read or write the   *)
(* store.                                                                  *)
(***************************************************************************)
\* strings.ToUpper on one chunk of a text; the model's texts hold the
\* lower-case words below, every other chunk is upper case or has no letter
UpperChunk(ch) ==
    CASE ch = "set" -> "SET"
      [] ch = "listening-port" -> "LISTENING-PORT"
      [] ch = "capa" -> "CAPA"
      [] ch = "getack" -> "GETACK"
      [] ch = "replconf" -> "REPLCONF"
      [] ch = "nx" -> "NX"
      [] ch = "xx" -> "XX"
      [] ch = "px" -> "PX"
      [] ch = "ex" -> "EX"
      [] OTHER -> ch

\* strings.ToUpper
ToUpper(s) == [i \in 1..Len(s) |-> UpperChunk(s[i])]

\* Registry.registerCommands: the registered names
Commands ==
    {<<"PING">>, <<"ECHO">>, <<"SET">>, <<"GET">>, <<"CONFIG">>, <<"KEYS">>,
     <<"INFO">>, <<"REPLCONF">>, <<"PSYNC">>, <<"WAIT">>, <<"TYPE">>,
     <<"XADD">>, <<"XRANGE">>, <<"XREAD">>, <<"INCR">>, <<"MULTI">>,
     <<"EXEC">>, <<"DISCARD">>}

\* a registry in which no command is a write command
NoCommandWrites(name) == FALSE

\* Registry.IsWriteCommand: the names registered with isWrite = true
IsWriteCommand(name) ==
    ToUpper(name) \in {<<"SET">>, <<"XADD">>, <<"INCR">>, <<"MULTI">>, <<"EXEC">>}

\* pingCommand
pingCommand(args) ==
    IF Len(args) = 0 THEN NewSimpleString(<<"PONG">>)
    ELSE NewBulkString(args[1].String)

\* the loop of setCommand over the options, from the i-th argument on
RECURSIVE SetOptions(_, _, _, _, _)
SetOptions(args, i, expiry, nx, xx) ==
    IF i > Len(args) THEN [err |-> <<>>, expiry |-> expiry, nx |-> nx, xx |-> xx]
    ELSE LET option == ToUpper(args[i].String)
             Fail(e) == [err |-> e, expiry |-> 0, nx |-> FALSE, xx |-> FALSE]
         IN IF option \in {<<"PX">>, <<"EX">>}
            THEN IF i + 1 > Len(args) THEN Fail(<<"ERR syntax error">>)
                 ELSE LET Expiry(n) ==
                              IF ~n.ok \/ n.val <= 0
                              THEN Fail(<<"ERR value is not an integer or out of range">>)
                              ELSE SetOptions(args, i + 2,
                                       IF option = <<"PX">> THEN n.val
                                       ELSE 1000 * n.val,
                                       nx, xx)
                      IN Expiry(ParseInt(args[i + 1].String))
            ELSE IF option = <<"NX">>
            THEN IF xx THEN Fail(<<"ERR syntax error">>)
                 ELSE SetOptions(args, i + 1, expiry, TRUE, xx)
            ELSE IF option = <<"XX">>
            THEN IF nx THEN Fail(<<"ERR syntax error">>)
                 ELSE SetOptions(args, i + 1, expiry, nx, TRUE)
            ELSE Fail(<<"ERR syntax error">>)

\* setCommand(args) on the store st: the reply and the store afterwards
setCommand(st, args, nowMs) ==
    IF Len(args) < 2
    THEN [reply |-> NewError(<<"ERR wrong number of arguments for 'set' command">>),
          store |-> st]
    ELSE LET WithOptions(key, value, o) ==
                 IF o.err # <<>> THEN [reply |-> NewError(o.err), store |-> st]
                 ELSE IF o.nx /\ Exists(st, key, nowMs)
                 THEN [reply |-> NewNullBulkString, store |-> st]
                 ELSE IF ~o.nx /\ o.xx /\ ~Exists(st, key, nowMs)
                 THEN [reply |-> NewNullBulkString, store |-> st]
                 ELSE [reply |-> NewSimpleString(<<"OK">>),
                       store |-> Set(st, key, StringValue(value), o.expiry, nowMs)]
         IN WithOptions(args[1].String, args[2].String,
                        SetOptions(args, 3, 0, FALSE, FALSE))

\* getCommand
getCommand(st, args, nowMs) ==
    IF Len(args) # 1
    THEN NewError(<<"ERR wrong number of arguments for 'get' command">>)
    ELSE IF ~Get(st, args[1].String, nowMs).exists THEN NewNullBulkString
    ELSE NewBulkString(Get(st, args[1].String, nowMs).value)

\* strings.HasPrefix
HasPrefix(s, prefix) ==
    Len(s) >= Len(prefix) /\ SubSeq(s, 1, Len(prefix)) = prefix

\* a slice with the keys of the set, in one of the orders a map gives
RECURSIVE KeySlice(_)
KeySlice(keys) ==
    IF keys = {} THEN <<>>
    ELSE LET First(key) == <<NewBulkString(key)>> \o KeySlice(keys \ {key})
         IN First(CHOOSE key \in keys : TRUE)

\* keysCommand
keysCommand(st, args, nowMs) ==
    IF Len(args) # 1
    THEN NewError(<<"ERR wrong number of arguments for 'keys' command">>)
    ELSE LET pattern == args[1].String
             allKeys == StoreKeys(st, nowMs)
         IN IF pattern = <<"*">> THEN NewArray(KeySlice(allKeys))
            ELSE IF HasSuffix(pattern, <<"*">>)
            THEN NewArray(KeySlice({key \in allKeys :
                                       HasPrefix(key, TrimSuffix(pattern, <<"*">>))}))
            ELSE NewArray(KeySlice({key \in allKeys : key = pattern}))

\* typeCommand
typeCommand(st, args, nowMs) ==
    IF Len(args) # 1
    THEN NewError(<<"ERR wrong number of arguments for 'type' command">>)
    ELSE NewSimpleString(GetType(st, args[1].String, nowMs))

\* replconfCommand(args); offset is GetOffset()
replconfCommand(args, offset, isReplica) ==
    IF Len(args) = 0
    THEN NewError(<<"ERR wrong number of arguments for 'replconf' command">>)
    ELSE LET subCommand == ToUpper(args[1].String)
         IN IF subCommand = <<"GETACK">>
            THEN NewArray(<<NewBulkString(<<"REPLCONF">>), NewBulkString(<<"ACK">>),
                            NewBulkString(FormatInt(
                                IF isReplica /\ offset < 0 THEN 0 ELSE offset))>>)
            ELSE IF subCommand = <<"ACK">> THEN ZeroRESP
            ELSE NewSimpleString(<<"OK">>)

\* len(emptyRDB) of psyncCommand
EmptyRDBLen == 88

\* the block psyncCommand returns beside its reply: '$', the length, CRLF and
\* the bytes of the empty RDB file, with no CRLF after them
RDBBlock == [ZeroRESP EXCEPT !.Type = "rdb", !.Number = EmptyRDBLen]

\* len(extraBytes)
ExtraLen(extraBytes) ==
    IF extraBytes.Type = "rdb"
    THEN 1 + Len(FormatInt(extraBytes.Number)) + 2 + extraBytes.Number
    ELSE 0

\* masterReplID: forty characters
masterReplID == "0123456789abcdefghijABCDEFGHIJ0123456789"

\* psyncCommand: the reply; offset is masterReplOffset
psyncCommand(offset) ==
    NewSimpleString(<<"FULLRESYNC ", masterReplID, " ">> \o FormatInt(offset))

\* the handlers that read or write nothing but the store: the reply and the
\* store afterwards
StoreHandler(cmdName, st, args, nowMs) ==
    CASE cmdName = <<"PING">> -> [reply |-> pingCommand(args), store |-> st]
      [] cmdName = <<"SET">> -> setCommand(st, args, nowMs)
      [] cmdName = <<"GET">> -> [reply |-> getCommand(st, args, nowMs), store |-> st]
      [] cmdName = <<"XADD">> -> xaddCommand(st, args, nowMs)
      [] cmdName = <<"KEYS">> -> [reply |-> keysCommand(st, args, nowMs), store |-> st]
      [] cmdName = <<"TYPE">> -> [reply |-> typeCommand(st, args, nowMs), store |-> st]

StoreCommands == {<<"PING">>, <<"SET">>, <<"GET">>, <<"XADD">>, <<"KEYS">>, <<"TYPE">>}

(***************************************************************************)
(* handler.go: XREAD up to the point where it blocks.                      *)
(***************************************************************************)
\* no result: the zero value of []RESP, and an empty channel
NoResult == <<>>

\* int64(^uint64(0) >> 1), cut to the 32-bit integers of the model
MaxInt64 == 2147483647

\* parseRangeID(id, isEnd, key) on the store st
parseRangeID(id, isEnd, key, st, nowMs) ==
    LET Ok(m, s) == [ms |-> m, seq |-> s, ok |-> TRUE]
        Fail == [ms |-> 0, seq |-> 0, ok |-> FALSE]
        Last(stream) ==
            IF Len(stream) = 0 THEN Ok(0, 0)
            ELSE splitStreamID(stream[Len(stream)].ID)
        One(ms) ==
            IF ~ms.ok THEN Fail
            ELSE Ok(ms.val, IF isEnd THEN MaxInt64 ELSE 0)
        Two(ms, seq) == IF ~ms.ok \/ ~seq.ok THEN Fail ELSE Ok(ms.val, seq.val)
        Parts(parts) ==
            IF Len(parts) = 1 THEN One(ParseInt(parts[1]))
            ELSE IF Len(parts) # 2 THEN Fail
            ELSE Two(ParseInt(parts[1]), ParseInt(parts[2]))
    IN IF id = <<"-">> THEN Ok(0, 0)
       ELSE IF id = <<"+">> THEN Ok(MaxInt64, MaxInt64)
       ELSE IF id = <<"$">>
       THEN IF key = <<>> THEN Fail
            ELSE Last(GetStream(st, key, nowMs).stream)
       ELSE Parts(Split(id, "-"))

\* the orders in which `for field, value := range entry.Fields` can visit
\* the fields: every order of the pairs of the map
FieldOrders(fields) ==
    {q \in [1..Cardinality(fields) -> fields] :
        \A i, j \in 1..Cardinality(fields) : i # j => q[i] # q[j]}

\* fieldValues: name, value, name, value, ... in one of these orders (the
\* entries of one field have one order only)
FieldValues(fields) ==
    LET Flat(q) == [i \in 1..(2 * Len(q)) |->
                       NewBulkString(q[(i + 1) \div 2][IF i % 2 = 1 THEN 1 ELSE 2])]
    IN Flat(CHOOSE q \in FieldOrders(fields) : TRUE)

\* entryArray
EntryArray(entry) ==
    NewArray(<<NewBulkString(entry.ID), NewArray(FieldValues(entry.Fields))>>)

\* streamEntries: the entries of stream whose ID is greater than
\* (startMs, startSeq), as the loops of xreadCommand and of NotifyNewEntry
\* collect them
StreamEntries(stream, start) ==
    LET After(entry) ==
            LET Id(p) == p.ok /\ compareStreamIDs(start.ms, start.seq, p.ms, p.seq) < 0
            IN Id(splitStreamID(entry.ID))
        Arrays(q) == [i \in 1..Len(q) |-> EntryArray(q[i])]
    IN Arrays(SelectSeq(stream, After))

\* fieldValues when `range entry.Fields` visits the pairs in the order q
FieldValuesIn(q) ==
    [i \in 1..(2 * Len(q)) |->
        NewBulkString(q[(i + 1) \div 2][IF i % 2 = 1 THEN 1 ELSE 2])]

\* xrangeCommand(args) on the store st; order[i] is the order in which the
\* loop over the map of the entry i of the stream visits its pairs, which Go
\* leaves open
xrangeCommand(st, args, nowMs, order) ==
    IF Len(args) # 3
    THEN NewError(<<"ERR wrong number of arguments for 'xrange' command">>)
    ELSE
    LET key == args[1].String
        found == GetStream(st, key, nowMs)
        start == parseRangeID(args[2].String, FALSE, key, st, nowMs)
        end == parseRangeID(args[3].String, TRUE, key, st, nowMs)
        InRange(i) ==
            LET Id(p) == /\ p.ok
                         /\ compareStreamIDs(start.ms, start.seq, p.ms, p.seq) <= 0
                         /\ compareStreamIDs(p.ms, p.seq, end.ms, end.seq) <= 0
            IN Id(splitStreamID(found.stream[i].ID))
        Indices == [i \in 1..Len(found.stream) |-> i]
        Results(with) ==
            [n \in 1..Len(with) |->
                NewArray(<<NewBulkString(found.stream[with[n]].ID),
                           NewArray(FieldValuesIn(order[with[n]]))>>)]
    IN IF ~found.exists THEN NewArray(<<>>)
       ELSE IF ~start.ok \/ ~end.ok
       THEN NewError(<<"ERR invalid stream ID specified as stream command argument">>)
       ELSE NewArray(Results(SelectSeq(Indices, InRange)))

\* xreadCommand(args) up to its return or to its call of handleBlockingRead:
\* block says that handleBlockingRead(keys, ids, blockMs) is called
xreadCommand(st, args, nowMs) ==
    LET Return(r) == [reply |-> r, block |-> FALSE, keys |-> <<>>, ids |-> <<>>,
                      blockMs |-> 0, hasBlock |-> FALSE]
        \* the loop over the streams and what follows it
        Loop(keys, ids, blockMs, hasBlock) ==
            LET numStreams == Len(keys)
                Start(i) == parseRangeID(ids[i].String, FALSE, keys[i].String,
                                         st, nowMs)
                Found(i) == StreamEntries(GetStream(st, keys[i].String, nowMs).stream,
                                          Start(i))
                Results(with) ==
                    [n \in 1..Len(with) |->
                        NewArray(<<NewBulkString(keys[with[n]].String),
                                   NewArray(Found(with[n]))>>)]
                Indices == [i \in 1..numStreams |-> i]
                Has(i) == Len(Found(i)) > 0
                After(results) ==
                    IF Len(results) > 0 THEN Return(NewArray(results))
                    ELSE IF blockMs >= 0
                    THEN [reply |-> ZeroRESP, block |-> TRUE, keys |-> keys,
                          ids |-> ids, blockMs |-> blockMs, hasBlock |-> hasBlock]
                    ELSE Return(NewArray(results))
            IN IF \E i \in 1..numStreams : ids[i].String = <<"$">> /\ ~hasBlock
               THEN Return(NewError(<<"ERR $ ID is only valid with BLOCK option">>))
               ELSE IF \E i \in 1..numStreams : ~Start(i).ok
               THEN Return(NewError(
                      <<"ERR invalid stream ID specified as stream command argument">>))
               ELSE After(Results(SelectSeq(Indices, Has)))
        \* from the word STREAMS on
        Streams(argIndex, blockMs, hasBlock) ==
            IF ToUpper(args[argIndex].String) # <<"STREAMS">>
            THEN Return(NewError(<<"ERR syntax error">>))
            ELSE IF (Len(args) - argIndex) % 2 # 0
            THEN Return(NewError(<<"ERR syntax error">>))
            ELSE Loop(SubSeq(args, argIndex + 1,
                             argIndex + (Len(args) - argIndex) \div 2),
                      SubSeq(args, argIndex + (Len(args) - argIndex) \div 2 + 1,
                             Len(args)),
                      blockMs, hasBlock)
        Block(ms) ==
            IF ~ms.ok \/ ms.val < 0
            THEN Return(NewError(
                   <<"ERR timeout is not a valid integer or out of range">>))
            ELSE Streams(3, ms.val, TRUE)
    IN IF Len(args) < 3
       THEN Return(NewError(<<"ERR wrong number of arguments for 'xread' command">>))
       ELSE IF ToUpper(args[1].String) = <<"BLOCK">>
       THEN Block(ParseInt(args[2].String))
       ELSE Streams(1, 0, FALSE)

(***************************************************************************)
(* handler.go: INCR.  The int64 of the code is the integer of MaxInt64 and *)
(* MinInt64 here: intVal++ on the largest one gives the smallest one.      *)
(***************************************************************************)
MinInt64 == 0 - MaxInt64 - 1

\* the value of a sequence of digits with a minus sign before it, as long as
\* it is in the range of int64
RECURSIVE NegDigitsVal(_, _)
NegDigitsVal(s, acc) ==
    IF Len(s) = 0 THEN [ok |-> TRUE, val |-> acc]
    ELSE IF acc < (MinInt64 + DigitVal(Head(s)) + 9) \div 10
    THEN [ok |-> FALSE, val |-> 0]
    ELSE NegDigitsVal(Tail(s), 10 * acc - DigitVal(Head(s)))

\* strconv.ParseInt(s, 10, 64) with its range error
ParseInt64(s) ==
    LET Fail == [ok |-> FALSE, val |-> 0]
        neg == Len(s) > 0 /\ s[1] = "-"
        digits == IF Len(s) > 0 /\ s[1] \in {"+", "-"} THEN Tail(s) ELSE s
        Signed(n) ==
            IF ~n.ok THEN Fail
            ELSE IF neg THEN n
            ELSE IF n.val = MinInt64 THEN Fail
            ELSE [ok |-> TRUE, val |-> 0 - n.val]
    IN IF ~AllDigits(digits) THEN Fail ELSE Signed(NegDigitsVal(digits, 0))

\* incrCommand after GetStore().Get(key) has returned got
incrWrite(st, key, got, nowMs) ==
    LET Parsed(n) ==
            IF ~n.ok
            THEN [reply |-> NewError(<<"ERR value is not an integer or out of range">>),
                  store |-> st]
            ELSE LET intVal == IF n.val = MaxInt64 THEN MinInt64 ELSE n.val + 1
                 IN [reply |-> NewInteger(intVal),
                     store |-> Set(st, key, StringValue(FormatInt(intVal)), 0, nowMs)]
    IN IF ~got.exists
       THEN [reply |-> NewInteger(1),
             store |-> Set(st, key, StringValue(<<"1">>), 0, nowMs)]
       ELSE Parsed(ParseInt64(got.value))

\* incrCommand(args) run in one piece on the store st
incrCommand(st, args, nowMs) ==
    IF Len(args) # 1
    THEN [reply |-> NewError(<<"ERR wrong number of arguments for 'incr' command">>),
          store |-> st]
    ELSE incrWrite(st, args[1].String, Get(st, args[1].String, nowMs), nowMs)

(***************************************************************************)
(* rdb_parser.go: the load of an RDB file. A file is its signature and the *)
(* items after it; an item is its first byte (an opcode or a value type)   *)
(* and what follows it: the value type, the instant, the key and the value *)
(* where the opcode has them. `complete` is FALSE for an item the file     *)
(* ends in the middle of.                                                  *)
(***************************************************************************)
RDB_OPCODE_EOF == 255
RDB_OPCODE_SELECTDB == 254
RDB_OPCODE_EXPIRETIME == 253
RDB_OPCODE_EXPIRETIMEMS == 252
RDB_OPCODE_RESIZEDB == 251
RDB_OPCODE_AUX == 250
RDB_TYPE_STRING == 0

RECURSIVE parseOpcodes(_, _, _, _)

\* what ParseRDB returns, and the store as it leaves it
RdbResult(failed, st) == [err |-> failed, store |-> st]

\* parseKeyValuePair: the value type, the key and the value after an instant.
\* time.Unix and time.UnixMilli never give the zero time, so the branch of
\* `!expiryTime.IsZero()` is the one taken
parseKeyValuePair(item, st, expiryMs, nowMs) ==
    IF ~item.complete THEN RdbResult(TRUE, st)
    ELSE IF item.valueType # RDB_TYPE_STRING THEN RdbResult(TRUE, st)
    ELSE IF expiryMs - nowMs > 0
    THEN RdbResult(FALSE, Set(st, item.key, StringValue(item.value),
                              expiryMs - nowMs, nowMs))
    ELSE RdbResult(FALSE, st)

\* the loop of ParseRDB from item i on: every key goes into the store as soon
\* as it is read, and an error returns with the store as it is
parseOpcodes(items, i, st, nowMs) ==
    IF i > Len(items) THEN RdbResult(FALSE, st)
    ELSE LET item == items[i]
             typeByte == item.typeByte
         IN  IF typeByte = RDB_OPCODE_EOF THEN RdbResult(FALSE, st)
             ELSE IF typeByte \in {RDB_OPCODE_SELECTDB, RDB_OPCODE_RESIZEDB,
                                   RDB_OPCODE_AUX}
             THEN IF item.complete THEN parseOpcodes(items, i + 1, st, nowMs)
                  ELSE RdbResult(TRUE, st)
             ELSE IF typeByte \in {RDB_OPCODE_EXPIRETIME, RDB_OPCODE_EXPIRETIMEMS}
             THEN LET expiryMs == IF typeByte = RDB_OPCODE_EXPIRETIME
                                  THEN item.expiry * 1000 ELSE item.expiry
                      pair == parseKeyValuePair(item, st, expiryMs, nowMs)
                  IN  IF pair.err THEN pair
                      ELSE parseOpcodes(items, i + 1, pair.store, nowMs)
             ELSE IF typeByte # RDB_TYPE_STRING THEN RdbResult(TRUE, st)
             ELSE IF ~item.complete THEN RdbResult(TRUE, st)
             ELSE parseOpcodes(items, i + 1,
                               Set(st, item.key, StringValue(item.value), 0, nowMs),
                               nowMs)

\* ParseRDB(filePath, store): the signature, then the items
ParseRDB(file, st, nowMs) ==
    IF file.signature # <<"REDIS">> THEN RdbResult(TRUE, st)
    ELSE parseOpcodes(file.items, 1, st, nowMs)

(***************************************************************************)
(* stream_manager.go: the blocked clients of the StreamManager.            *)
(***************************************************************************)
\* a RegisterBlockedClient that keeps `$` as the start ID of the client
registerUnresolved(clients, st, key, requestedID, ch, nowMs) ==
    Append(clients, [key |-> key, startID |-> requestedID, resultCh |-> ch])

\* RegisterBlockedClient(key, requestedID, timeout): the list of key with
\* the new client, whose channel is ch
RegisterBlockedClient(clients, st, key, requestedID, ch, nowMs) ==
    LET Last(stream) == IF Len(stream) > 0 THEN stream[Len(stream)].ID
                        ELSE <<"0", "-", "0">>
        Client(resolvedStartID) ==
            [key |-> key, startID |-> resolvedStartID, resultCh |-> ch]
    IN Append(clients,
              Client(IF requestedID = <<"$">>
                     THEN Last(GetStream(st, key, nowMs).stream)
                     ELSE requestedID))

\* a RemoveBlockedClient that finds no client
RemoveNoClient(clients, ch) == clients

\* RemoveBlockedClient(key, resultCh): the list of key without the clients
\* whose channel is ch
RemoveBlockedClient(clients, ch) ==
    LET Other(client) == client.resultCh # ch
    IN SelectSeq(clients, Other)

\* NotifyNewEntry(key): what it sends to the client, NoResult when the
\* stream has no entry after the start ID of the client and the client stays
NotifyResult(st, key, client, nowMs) ==
    LET stream == GetStream(st, key, nowMs).stream
        Entries(start) ==
            IF ~start.ok THEN <<>> ELSE StreamEntries(stream, start)
        Sent(streamEntries) ==
            IF Len(streamEntries) > 0
            THEN <<NewBulkString(key), NewArray(streamEntries)>>
            ELSE NoResult
    IN IF Len(stream) = 0 THEN NoResult
       ELSE Sent(Entries(parseRangeID(client.startID, FALSE, key, st, nowMs)))

(***************************************************************************)
(* replica.go: the replica table and the offset of the primary.            *)
(***************************************************************************)
\* AddReplica(conn)
AddReplica(reps, conn) ==
    IF \E i \in 1..Len(reps) : reps[i].Conn = conn THEN reps
    ELSE Append(reps, [Conn |-> conn, Offset |-> 0])

\* RemoveReplica(conn)
RemoveReplica(reps, conn) ==
    IF \E i \in 1..Len(reps) : reps[i].Conn = conn
    THEN LET i == CHOOSE j \in 1..Len(reps) :
                      reps[j].Conn = conn /\ \A h \in 1..(j - 1) : reps[h].Conn # conn
         IN SubSeq(reps, 1, i - 1) \o SubSeq(reps, i + 1, Len(reps))
    ELSE reps

\* UpdateReplicaOffset(conn, offset)
UpdateReplicaOffset(reps, conn, offset) ==
    [i \in 1..Len(reps) |->
        IF reps[i].Conn = conn /\ \A h \in 1..(i - 1) : reps[h].Conn # conn
        THEN [reps[i] EXCEPT !.Offset = offset]
        ELSE reps[i]]

\* GetReplicaConnections()
GetReplicaConnections(reps) == [i \in 1..Len(reps) |-> reps[i].Conn]

\* a count that leaves out the replicas whose offset is targetOffset
CountAbove(reps, targetOffset) ==
    Cardinality({i \in 1..Len(reps) : reps[i].Offset > targetOffset})

\* GetAcknowledgedReplicaCount(targetOffset)
GetAcknowledgedReplicaCount(reps, targetOffset) ==
    Cardinality({i \in 1..Len(reps) : reps[i].Offset >= targetOffset})

(***************************************************************************)
(* State.                                                                  *)
(***************************************************************************)
VARIABLES
    store,          \* storeInstance of the process that serves the clients
    now,            \* time.Now() in milliseconds
    reply,          \* the reply of the last command run outside a connection
    currentOffset,  \* replica.go: currentOffset of the primary
    replicas,       \* replica.go: the replica table, records [Conn, Offset]
    clientStates,   \* main.go: per connection, [InTransaction, QueuedCommands]
    pc,             \* per connection, where its handleClient goroutine stands
    cur,            \* per connection, respObj: the frame being processed
    resp,           \* per connection, the response and extraBytes of processCommand
    waitSt,         \* per connection, the locals of a waitCommand in progress
    execSt,         \* per connection, the locals of an execCommand in progress
    lastReply,      \* per client connection, the last reply written to it
    wire,           \* per replica connection, all the primary wrote to it
    connState,      \* per replica connection: open, peer_closed or closed
    toMaster,       \* per replica, the frames it sent that the primary has not read
    rpc,            \* per replica, where connectToMaster stands
    rpos,           \* per replica, how much of wire it has read
    rstore,         \* per replica, its storeInstance
    rstate,         \* per replica, its ClientState for the connection to the primary
    rOffset,        \* per replica, its currentOffset
    commandHistory, \* per replica, the local commandHistory of connectToMaster
    log,            \* history: the write commands in the order the primary ran them
    issued,         \* history: how many commands the clients have sent
    blockedClients, \* stream_manager.go: per key, the blocked clients [ch, startID]
    notifying,      \* per key, the goroutines `go NotifyNewEntry(key)` still to run
    xreadSt,        \* per connection, the locals of a handleBlockingRead in progress
    incrSt,         \* per connection, the locals of an incrCommand in progress
    xaddSt,         \* per connection, the locals of an xaddCommand in progress
    streams,        \* the *Stream objects: their entries, and the one each key holds
    pipe,           \* a connection as bytes: the values marshalled into it, the
                    \* bytes not read yet, and the values parsed out of it
    rdb,            \* main: how the load of the RDB file at startup went
    config,         \* serverConfig: [IsReplica]
    mu              \* KeyValueStore.mu and the goroutines that use the store

\* the state of the blocking reads
varsBlock == <<blockedClients, notifying, xreadSt>>

\* the state of the handlers that read the store and write it later
varsLocals == <<incrSt, xaddSt, streams, pipe, rdb, config, mu>>

\* the state of the connections, of the replication and of the replicas
varsConns == <<currentOffset, replicas, clientStates, pc, cur, resp, waitSt,
               execSt, lastReply, wire, connState, toMaster, rpc, rpos, rstore,
               rstate, rOffset, commandHistory, log, issued, blockedClients,
               notifying, xreadSt, incrSt, xaddSt, streams, pipe, rdb, config, mu>>

Keys == {<<"k">>, <<"s">>}
StreamKeys == {<<"s">>}

(***************************************************************************)
(* XADD commands run one after another on one store (SpecStream).          *)
(***************************************************************************)
IdAlphabet == {"0", "1", "2", "-", "*"}

\* the ID texts a client sends
IdTexts == UNION {[1..n -> IdAlphabet] : n \in 1..MaxIdLen}

\* the arguments after the ID: none, a name without value, a pair
FieldArgs ==
    {<<>>, <<NewBulkString(<<"f">>)>>,
     <<NewBulkString(<<"f">>), NewBulkString(<<"v">>)>>}

\* the server executes XADD key id fields...
XAdd(key, id, fv) ==
    /\ Len(GetStream(store, key, now).stream) < MaxEntries
    /\ LET r == xaddCommand(store,
                    <<NewBulkString(key), NewBulkString(id)>> \o fv, now)
       IN /\ store' = r.store
          /\ reply' = r.reply
    /\ UNCHANGED now
    /\ UNCHANGED varsConns

\* a millisecond passes
Tick ==
    /\ now < MaxNow
    /\ now' = now + 1
    /\ UNCHANGED <<store, reply>>
    /\ UNCHANGED varsConns

NextStream ==
    \/ \E key \in StreamKeys, id \in IdTexts, fv \in FieldArgs : XAdd(key, id, fv)
    \/ Tick

\* C1: the entries of every stream have strictly increasing (ms, seq) IDs in
\* stored order, and no entry has the ID 0-0
C1_StreamIdsIncreasing ==
    \A key \in Keys :
        LET stream == GetStream(store, key, now).stream
            P(i) == splitStreamID(stream[i].ID)
        IN /\ \A i \in 1..Len(stream) :
                  P(i).ok /\ ~(P(i).ms = 0 /\ P(i).seq = 0)
           /\ \A i \in 1..(Len(stream) - 1) :
                  compareStreamIDs(P(i).ms, P(i).seq,
                                   P(i + 1).ms, P(i + 1).seq) < 0

(***************************************************************************)
(* main.go: the connections of a primary.  A frame travels with an id, the *)
(* connection that sent it and its number, which is not on the wire: it    *)
(* names the command in the histories.                                     *)
(***************************************************************************)
Clients == {"c1", "c2"}
Replicas == {"r1"}
Conns == Clients \cup Replicas

NoId == <<"", 0>>
Frame(bytes, id) == [bytes |-> bytes, id |-> id]
NoFrame == Frame(ZeroRESP, NoId)

\* a command: an array of bulk strings
Command(words) == NewArray([i \in 1..Len(words) |-> NewBulkString(words[i])])

\* &ClientState{}
NewClientState == [InTransaction |-> FALSE, QueuedCommands |-> <<>>]

NoResp == [response |-> ZeroRESP, extraBytes |-> ZeroRESP]
NoWait == [numReplicas |-> 0, endTime |-> 0, currentOffset |-> 0]
NoExec == [queuedCommands |-> <<>>, results |-> <<>>]

\* the locals of handleBlockingRead when it starts: the timer of the call
\* fires at endTime, no key is registered, the channels are empty
NewBlockingRead(keys, ids, blockMs, hasBlock, nowMs) ==
    [keys |-> keys, ids |-> ids, blockMs |-> blockMs, hasBlock |-> hasBlock,
     endTime |-> nowMs + blockMs, registered |-> {},
     resultChs |-> [i \in 1..Len(keys) |-> NoResult],
     listened |-> {}, firstResultCh |-> NoResult]

NoXread == NewBlockingRead(<<>>, <<>>, 0, FALSE, 0)

\* the locals of incrCommand: value, exists of GetStore().Get(key)
NoIncr == [value |-> <<>>, exists |-> FALSE]

\* the locals of xaddCommand: the *Stream it holds (NoId: the one it has
\* made itself), the entries it has read there and its newEntry
NoXadd == [stream |-> NoId, Entries |-> <<>>, newEntry |-> [ID |-> <<>>, Fields |-> {}]]

\* serverConfig before InitConfig, and after it without --replicaof
NewServerConfig == [IsReplica |-> FALSE]

\* the goroutines that use the store: the handlers of TYPE, GET and SET, a
\* deleteExpiredKey some reader started, and cleanupExpiredKeys
StoreGoroutines == {"type", "get", "set", "deleter", "reaper"}

\* no goroutine
NoOne == ""

\* sync.RWMutex of a new KeyValueStore and goroutines that hold nothing:
\* readers counts the RLocks a goroutine holds, w is the goroutine inside
\* Lock or holding the write lock, at is where a goroutine stands, args are
\* the arguments of its call, scheduled are the keys of the
\* `go s.deleteExpiredKey(key)` that have not started, exists is the result
\* of Exists inside GetType, and spared tells that a deleteExpiredKey has
\* run on a key that was not expired any more
NewRWMutex ==
    [readers |-> [g \in StoreGoroutines |-> 0],
     w |-> NoOne,
     at |-> [g \in StoreGoroutines |-> "idle"],
     args |-> [g \in StoreGoroutines |-> <<>>],
     scheduled |-> {},
     exists |-> FALSE,
     spared |-> FALSE]

\* main before the RDB file: no file has been loaded
NoRDB == "none"

\* a connection nothing has been written to
NoPipe == [sent |-> <<>>, bytes |-> <<>>, received |-> <<>>, panic |-> FALSE]

\* no *Stream object yet, and no key that holds one
NoStreams == [Entries |-> [id \in {} |-> <<>>], at |-> [k \in Keys |-> NoId]]

\* KeyValueStore.Set with a stream: `go GetStreamManager().NotifyNewEntry(key)`
\* for the key whose stream a command has set
Notified(pending, old, new) ==
    [k \in DOMAIN pending |->
        IF new.data[k].type = "stream" /\ new.data[k] # old.data[k]
        THEN pending[k] + 1 ELSE pending[k]]

\* masterReplOffset: IncrementMasterOffset adds to it what it adds to
\* currentOffset
masterReplOffset == currentOffset

SeqRange(q) == {q[i] : i \in 1..Len(q)}

\* conn.Write by the primary: the bytes reach an open connection
Written(w, conns, item) ==
    [r \in DOMAIN w |->
        IF r \in conns /\ connState[r] = "open" THEN Append(w[r], item) ELSE w[r]]

\* the connections on which a write of the primary may fail: those the
\* replica has closed
MayFail(conns) == {r \in conns : connState[r] = "peer_closed"}

\* RemoveReplica for each connection of toRemove, in the order of conns
RECURSIVE RemoveAll(_, _, _)
RemoveAll(reps, conns, toRemove) ==
    IF Len(conns) = 0 THEN reps
    ELSE RemoveAll(IF Head(conns) \in toRemove
                   THEN RemoveReplica(reps, Head(conns)) ELSE reps,
                   Tail(conns), toRemove)

\* a propagateCommand that leaves its loop at the first write that fails
propagateStopsAtFailure(reps, w, cs, cmd, failed) ==
    LET conns == GetReplicaConnections(reps)
        Fails(r) == cs[r] = "closed" \/ r \in failed
        first == IF \E i \in 1..Len(conns) : Fails(conns[i])
                 THEN CHOOSE i \in 1..Len(conns) :
                          Fails(conns[i]) /\ \A j \in 1..(i - 1) : ~Fails(conns[j])
                 ELSE Len(conns) + 1
        toRemove == {conns[i] : i \in {j \in 1..Len(conns) : j = first}}
    IN [wire |-> Written(w, {conns[i] : i \in 1..(first - 1)}, cmd),
        replicas |-> RemoveAll(reps, conns, toRemove),
        connState |-> [r \in DOMAIN cs |-> IF r \in toRemove THEN "closed" ELSE cs[r]]]

\* propagateCommand(cmd), the writes in failed failing: the wire, the
\* replica table and the connections afterwards
propagateCommand(reps, w, cs, cmd, failed) ==
    LET conns == GetReplicaConnections(reps)
        toRemove == {r \in SeqRange(conns) : cs[r] = "closed" \/ r \in failed}
    IN [wire |-> Written(w, SeqRange(conns) \ toRemove, cmd),
        replicas |-> RemoveAll(reps, conns, toRemove),
        connState |-> [r \in DOMAIN cs |-> IF r \in toRemove THEN "closed" ELSE cs[r]]]

\* a MULTI that keeps the commands queued so far
multiKeepsQueue(args, state) ==
    IF Len(args) > 0
    THEN [reply |-> NewError(<<"ERR wrong number of arguments for 'multi' command">>),
          state |-> state]
    ELSE [reply |-> NewSimpleString(<<"OK">>),
          state |-> [state EXCEPT !.InTransaction = TRUE]]

\* multiCommand
multiCommand(args, state) ==
    IF Len(args) > 0
    THEN [reply |-> NewError(<<"ERR wrong number of arguments for 'multi' command">>),
          state |-> state]
    ELSE [reply |-> NewSimpleString(<<"OK">>),
          state |-> [InTransaction |-> TRUE, QueuedCommands |-> <<>>]]

\* a DISCARD that replies +OK outside a transaction
discardAlwaysOk(args, state) ==
    IF Len(args) > 0
    THEN [reply |-> NewError(<<"ERR wrong number of arguments for 'discard' command">>),
          state |-> state]
    ELSE [reply |-> NewSimpleString(<<"OK">>), state |-> NewClientState]

\* a DISCARD that replies +OK and stays in the transaction
discardKeepsTransaction(args, state) ==
    IF Len(args) > 0
    THEN [reply |-> NewError(<<"ERR wrong number of arguments for 'discard' command">>),
          state |-> state]
    ELSE IF ~state.InTransaction
    THEN [reply |-> NewError(<<"ERR DISCARD without MULTI">>), state |-> NewClientState]
    ELSE [reply |-> NewSimpleString(<<"OK">>), state |-> state]

\* a DISCARD that leaves the transaction and keeps the queue
discardKeepsQueue(args, state) ==
    IF Len(args) > 0
    THEN [reply |-> NewError(<<"ERR wrong number of arguments for 'discard' command">>),
          state |-> state]
    ELSE [reply |-> NewSimpleString(<<"OK">>),
          state |-> [state EXCEPT !.InTransaction = FALSE]]

\* discardCommand
discardCommand(args, state) ==
    IF Len(args) > 0
    THEN [reply |-> NewError(<<"ERR wrong number of arguments for 'discard' command">>),
          state |-> state]
    ELSE IF ~state.InTransaction
    THEN [reply |-> NewError(<<"ERR DISCARD without MULTI">>), state |-> NewClientState]
    ELSE [reply |-> NewSimpleString(<<"OK">>), state |-> NewClientState]

\* the commands whose handlers the model runs
Modelled ==
    StoreCommands \cup
    {<<"REPLCONF">>, <<"PSYNC">>, <<"WAIT">>, <<"MULTI">>, <<"EXEC">>, <<"DISCARD">>,
     <<"XREAD">>}

GetAckCommand == Command(<<<<"REPLCONF">>, <<"GETACK">>, <<"*">>>>)

\* processCommand(respObj, registry, conn) up to the return of the handler, or
\* to the point where the handler starts to wait (WAIT) or to loop (EXEC)
processCommand(c, f) ==
    LET respObj == f.bytes
        same == [pc |-> "reply", response |-> ZeroRESP, extraBytes |-> ZeroRESP,
                 store |-> store, replicas |-> replicas, state |-> clientStates[c],
                 waitSt |-> NoWait, execSt |-> NoExec, xreadSt |-> NoXread,
                 wire |-> wire, log |-> log]
        Reply(r) == [same EXCEPT !.response = r]
    IN
    IF respObj.Type # Array THEN Reply(NewError(<<"ERR invalid command format">>))
    ELSE IF Len(respObj.Array) = 0 THEN Reply(NewError(<<"ERR empty command">>))
    ELSE IF respObj.Array[1].Type # BulkString
    THEN Reply(NewError(<<"ERR command must be a bulk string">>))
    ELSE
    LET cmdName == ToUpper(respObj.Array[1].String)
        args == Tail(respObj.Array)
        state == clientStates[c]
        after == IF IsWriteCommand(cmdName) /\ ~config.IsReplica THEN "incr"
                 ELSE "reply"
    IN
    IF state.InTransaction /\ cmdName \notin {<<"EXEC">>, <<"MULTI">>, <<"DISCARD">>}
    THEN [same EXCEPT !.response = NewSimpleString(<<"QUEUED">>),
                      !.state = [state EXCEPT !.QueuedCommands = Append(@, f)]]
    ELSE IF cmdName \notin Commands
    THEN Reply(NewError(<<"ERR unknown command '">> \o cmdName \o <<"'">>))
    ELSE IF cmdName \in StoreCommands
    THEN LET Handled(h) ==
                 [same EXCEPT !.pc = after, !.response = h.reply, !.store = h.store,
                              !.log = IF IsWriteCommand(cmdName) THEN Append(log, f)
                                      ELSE log]
         IN Handled(StoreHandler(cmdName, store, args, now))
    ELSE IF cmdName = <<"XREAD">>
    THEN \* xreadCommand up to its return or to handleBlockingRead
         LET Read(x) ==
                 IF ~x.block THEN Reply(x.reply)
                 ELSE [same EXCEPT
                         !.pc = IF Len(x.keys) = 0 THEN "xwait" ELSE "xreg",
                         !.xreadSt = NewBlockingRead(x.keys, x.ids, x.blockMs,
                                                     x.hasBlock, now)]
         IN Read(xreadCommand(store, args, now))
    ELSE IF cmdName = <<"REPLCONF">>
    THEN [same EXCEPT
            !.response = replconfCommand(args, currentOffset, FALSE),
            !.replicas =
                IF /\ Len(args) >= 2
                   /\ ToUpper(args[1].String) = <<"ACK">>
                   /\ ParseInt(args[2].String).ok
                THEN UpdateReplicaOffset(replicas, c, ParseInt(args[2].String).val)
                ELSE replicas]
    ELSE IF cmdName = <<"PSYNC">>
    THEN [same EXCEPT !.response = psyncCommand(masterReplOffset),
                      !.extraBytes = RDBBlock,
                      !.replicas = AddReplica(replicas, c)]
    ELSE IF cmdName = <<"WAIT">>
    THEN \* waitCommand up to its loop
         IF Len(args) # 2
         THEN Reply(NewError(<<"ERR wrong number of arguments for 'wait' command">>))
         ELSE IF ~ParseInt(args[1].String).ok \/ ~ParseInt(args[2].String).ok
         THEN Reply(NewError(<<"ERR value is not an integer or out of range">>))
         ELSE IF Len(GetReplicaConnections(replicas)) = 0 THEN Reply(NewInteger(0))
         ELSE [same EXCEPT
                 !.pc = "wait",
                 !.wire = Written(wire, SeqRange(GetReplicaConnections(replicas)),
                                  Frame(GetAckCommand, NoId)),
                 !.waitSt = [numReplicas |-> ParseInt(args[1].String).val,
                             endTime |-> now + ParseInt(args[2].String).val,
                             currentOffset |-> currentOffset]]
    ELSE IF cmdName = <<"MULTI">>
    THEN [same EXCEPT !.pc = after, !.response = multiCommand(args, state).reply,
                      !.state = multiCommand(args, state).state,
                      !.log = Append(log, f)]
    ELSE IF cmdName = <<"DISCARD">>
    THEN [same EXCEPT !.response = discardCommand(args, state).reply,
                      !.state = discardCommand(args, state).state]
    ELSE \* EXEC: execCommand up to its loop
         IF Len(args) > 0
         THEN [same EXCEPT
                 !.pc = after,
                 !.response = NewError(<<"ERR wrong number of arguments for 'exec' command">>),
                 !.log = Append(log, f)]
         ELSE IF ~state.InTransaction
         THEN [same EXCEPT !.pc = after, !.state = NewClientState,
                           !.response = NewError(<<"ERR EXEC without MULTI">>),
                           !.log = Append(log, f)]
         ELSE [same EXCEPT !.pc = "exec", !.state = NewClientState,
                           !.execSt = [queuedCommands |-> state.QueuedCommands,
                                       results |-> <<>>]]

\* most commands the clients of SpecRepl send, all together
MaxCmds == 2
\* most commands the clients of SpecTx send, all together
MaxTxCmds == 4
\* most frames a primary sends to the replica of SpecDriver after the RDB block
MaxStream == 4

varsReplica == <<rpc, rpos, rstore, rstate, rOffset, commandHistory>>

\* handleClient: a frame is read from connection c and processCommand runs
\* up to the return of the handler
Dispatch(c, f) ==
    LET known == /\ f.bytes.Type = Array
                 /\ Len(f.bytes.Array) > 0
                 /\ ToUpper(f.bytes.Array[1].String) \in Commands
    IN \E d \in {processCommand(c, f)} :
       /\ pc[c] = "idle"
       /\ known => ToUpper(f.bytes.Array[1].String) \in Modelled
       /\ pc' = [pc EXCEPT ![c] = d.pc]
       /\ cur' = [cur EXCEPT ![c] = f]
       /\ resp' = [resp EXCEPT ![c] = [response |-> d.response,
                                       extraBytes |-> d.extraBytes]]
       /\ store' = d.store
       /\ replicas' = d.replicas
       /\ clientStates' = [clientStates EXCEPT ![c] = d.state]
       /\ waitSt' = [waitSt EXCEPT ![c] = d.waitSt]
       /\ execSt' = [execSt EXCEPT ![c] = d.execSt]
       /\ xreadSt' = [xreadSt EXCEPT ![c] = d.xreadSt]
       /\ notifying' = Notified(notifying, store, d.store)
       /\ wire' = d.wire
       /\ log' = d.log
       /\ UNCHANGED <<now, reply, currentOffset, lastReply, connState,
                      blockedClients>>
       /\ UNCHANGED varsReplica
       /\ UNCHANGED varsLocals

\* a client sends the command cmd on its connection and the primary reads it
ClientCommand(c, cmd, most) ==
    /\ issued < most
    /\ Dispatch(c, Frame(cmd, <<c, issued + 1>>))
    /\ issued' = issued + 1
    /\ UNCHANGED toMaster

\* the primary reads the next frame a replica sent
ReplicaCommand(r) ==
    /\ Len(toMaster[r]) > 0
    /\ connState[r] # "closed"
    /\ Dispatch(r, Frame(Head(toMaster[r]), NoId))
    /\ toMaster' = [toMaster EXCEPT ![r] = Tail(@)]
    /\ UNCHANGED issued

\* IncrementOffset(bytesWritten) of processCommand
Incr(c) ==
    /\ pc[c] = "incr"
    /\ currentOffset' = currentOffset + MarshalLen(resp[c].response)
                                      + ExtraLen(resp[c].extraBytes)
    /\ pc' = [pc EXCEPT ![c] = "prop"]
    /\ UNCHANGED <<store, now, reply, replicas, clientStates, cur, resp, waitSt,
                   execSt, lastReply, wire, connState, toMaster, log, issued>>
    /\ UNCHANGED varsReplica
    /\ UNCHANGED <<varsBlock, varsLocals>>

\* propagateCommand(respObj) of processCommand: the frame is written to every
\* replica of the table, and the replicas whose write fails are removed
Propagate(c) ==
    /\ pc[c] = "prop"
    /\ \E failed \in SUBSET MayFail(SeqRange(GetReplicaConnections(replicas))) :
          \E p \in {propagateCommand(replicas, wire, connState, cur[c], failed)} :
             /\ wire' = p.wire
             /\ replicas' = p.replicas
             /\ connState' = p.connState
    /\ pc' = [pc EXCEPT ![c] = "reply"]
    /\ UNCHANGED <<store, now, reply, currentOffset, clientStates, cur, resp,
                   waitSt, execSt, lastReply, toMaster, log, issued>>
    /\ UNCHANGED varsReplica
    /\ UNCHANGED <<varsBlock, varsLocals>>

\* where handleClient goes after its writes: respObj.Array[0] of an empty
\* array is an index out of range
AfterWrites(c) ==
    IF cur[c].bytes.Type # Array \/ Len(cur[c].bytes.Array) = 0 THEN "panic"
    ELSE IF IsWriteCommand(cur[c].bytes.Array[1].String) /\ ~config.IsReplica
    THEN "incr2"
    ELSE "idle"

\* conn.Write(item) of handleClient on connection c, failing when fails
ConnWrite(c, item, fails, next) ==
    /\ IF c \in Clients
       THEN /\ ~fails
            /\ lastReply' = [lastReply EXCEPT ![c] = item]
            /\ UNCHANGED <<wire, connState, clientStates>>
            /\ pc' = [pc EXCEPT ![c] = next]
       ELSE /\ fails \in IF connState[c] = "open" THEN {FALSE}
                         ELSE IF connState[c] = "closed" THEN {TRUE}
                         ELSE {TRUE, FALSE}
            /\ UNCHANGED lastReply
            /\ IF fails
               THEN /\ pc' = [pc EXCEPT ![c] = "closed"]
                    /\ connState' = [connState EXCEPT ![c] = "closed"]
                    /\ clientStates' = [clientStates EXCEPT ![c] = NewClientState]
                    /\ UNCHANGED wire
               ELSE /\ pc' = [pc EXCEPT ![c] = next]
                    /\ wire' = IF MarshalLen(item) + ExtraLen(item) > 0
                               THEN Written(wire, {c}, Frame(item, NoId))
                               ELSE wire
                    /\ UNCHANGED <<connState, clientStates>>

\* conn.Write([]byte(response.Marshal()))
WriteReply(c) ==
    /\ pc[c] = "reply"
    /\ \E fails \in BOOLEAN :
          ConnWrite(c, resp[c].response, fails,
                    IF ExtraLen(resp[c].extraBytes) > 0 THEN "extra"
                    ELSE AfterWrites(c))
    /\ UNCHANGED <<store, now, reply, currentOffset, replicas, cur, resp, waitSt,
                   execSt, toMaster, log, issued>>
    /\ UNCHANGED varsReplica
    /\ UNCHANGED <<varsBlock, varsLocals>>

\* conn.Write(extraBytes)
WriteExtra(c) ==
    /\ pc[c] = "extra"
    /\ \E fails \in BOOLEAN :
          ConnWrite(c, resp[c].extraBytes, fails, AfterWrites(c))
    /\ UNCHANGED <<store, now, reply, currentOffset, replicas, cur, resp, waitSt,
                   execSt, toMaster, log, issued>>
    /\ UNCHANGED varsReplica
    /\ UNCHANGED <<varsBlock, varsLocals>>

\* IncrementOffset(bytesWritten) of handleClient
Incr2(c) ==
    /\ pc[c] = "incr2"
    /\ currentOffset' = currentOffset + MarshalLen(resp[c].response)
                                      + ExtraLen(resp[c].extraBytes)
    /\ pc' = [pc EXCEPT ![c] = "idle"]
    /\ UNCHANGED <<store, now, reply, replicas, clientStates, cur, resp, waitSt,
                   execSt, lastReply, wire, connState, toMaster, log, issued>>
    /\ UNCHANGED varsReplica
    /\ UNCHANGED <<varsBlock, varsLocals>>

\* the loop of waitCommand leaves: the count reached numReplicas before
\* endTime, or endTime has come
WaitPoll(c) ==
    /\ pc[c] = "wait"
    /\ LET acked == GetAcknowledgedReplicaCount(replicas, waitSt[c].currentOffset)
       IN /\ now < waitSt[c].endTime => acked >= waitSt[c].numReplicas
          /\ resp' = [resp EXCEPT ![c] = [response |-> NewInteger(acked),
                                          extraBytes |-> ZeroRESP]]
    /\ pc' = [pc EXCEPT ![c] = "reply"]
    /\ UNCHANGED <<store, now, reply, currentOffset, replicas, clientStates, cur,
                   waitSt, execSt, lastReply, wire, connState, toMaster, log, issued>>
    /\ UNCHANGED varsReplica
    /\ UNCHANGED <<varsBlock, varsLocals>>

\* a millisecond passes while a WAIT has its deadline ahead
WaitTick ==
    /\ \E c \in Conns : pc[c] = "wait" /\ now < waitSt[c].endTime
    /\ now' = now + 1
    /\ UNCHANGED <<store, reply, currentOffset, replicas, clientStates, pc, cur,
                   resp, waitSt, execSt, lastReply, wire, connState, toMaster,
                   log, issued>>
    /\ UNCHANGED varsReplica
    /\ UNCHANGED <<varsBlock, varsLocals>>

\* a loop that leaves at the first error
RestUnlessError(queued, r) == IF r.Type = Error THEN <<>> ELSE Tail(queued)

\* `for i, cmd := range queuedCommands` of execCommand: the commands still to
\* run once the first one has given the result r
RestAfter(queued, r) == Tail(queued)

\* one turn of the loop of execCommand: the next queued command is run, and
\* a write command is counted and propagated
ExecStep(c) ==
    /\ pc[c] = "exec"
    /\ Len(execSt[c].queuedCommands) > 0
    /\ LET f == Head(execSt[c].queuedCommands)
           cmd == f.bytes
           Result(r) == [execSt EXCEPT ![c] =
                            [queuedCommands |-> RestAfter(@.queuedCommands, r),
                             results |-> Append(@.results, r)]]
           Skip(r) == /\ execSt' = Result(r)
                      /\ UNCHANGED <<store, currentOffset, wire, replicas,
                                     connState, log, notifying>>
       IN IF cmd.Type # Array \/ Len(cmd.Array) = 0
          THEN Skip(NewError(<<"ERR invalid command format">>))
          ELSE IF cmd.Array[1].Type # BulkString
          THEN Skip(NewError(<<"ERR command must be a bulk string">>))
          ELSE IF ToUpper(cmd.Array[1].String) \notin Commands
          THEN Skip(NewError(<<"ERR unknown command '">>
                             \o ToUpper(cmd.Array[1].String) \o <<"'">>))
          ELSE
          LET cmdName == ToUpper(cmd.Array[1].String)
          IN \E h \in {StoreHandler(cmdName, store, Tail(cmd.Array), now)} :
             /\ cmdName \in StoreCommands
             /\ execSt' = Result(h.reply)
             /\ store' = h.store
             /\ notifying' = Notified(notifying, store, h.store)
             /\ IF IsWriteCommand(cmdName) /\ ~config.IsReplica
                THEN /\ currentOffset' = currentOffset + MarshalLen(h.reply)
                     /\ log' = Append(log, f)
                     /\ \E failed \in SUBSET MayFail(SeqRange(
                                          GetReplicaConnections(replicas))) :
                           \E p \in {propagateCommand(replicas, wire, connState,
                                                      f, failed)} :
                              /\ wire' = p.wire
                              /\ replicas' = p.replicas
                              /\ connState' = p.connState
                ELSE UNCHANGED <<currentOffset, log, wire, replicas, connState>>
    /\ UNCHANGED <<now, reply, clientStates, pc, cur, resp, waitSt, lastReply,
                   toMaster, issued, blockedClients, xreadSt>>
    /\ UNCHANGED varsReplica
    /\ UNCHANGED varsLocals

\* an EXEC that replies an empty array
ExecDoneEmpty(c) ==
    /\ pc[c] = "exec"
    /\ Len(execSt[c].queuedCommands) = 0
    /\ resp' = [resp EXCEPT ![c] = [response |-> NewArray(<<>>),
                                    extraBytes |-> ZeroRESP]]
    /\ execSt' = [execSt EXCEPT ![c] = NoExec]
    /\ log' = Append(log, cur[c])
    /\ pc' = [pc EXCEPT ![c] = IF config.IsReplica THEN "reply" ELSE "incr"]
    /\ UNCHANGED <<store, now, reply, currentOffset, replicas, clientStates, cur,
                   waitSt, lastReply, wire, connState, toMaster, issued>>
    /\ UNCHANGED varsReplica
    /\ UNCHANGED <<varsBlock, varsLocals>>

\* execCommand returns the array of the results
ExecDone(c) ==
    /\ pc[c] = "exec"
    /\ Len(execSt[c].queuedCommands) = 0
    /\ resp' = [resp EXCEPT ![c] = [response |-> NewArray(execSt[c].results),
                                    extraBytes |-> ZeroRESP]]
    /\ execSt' = [execSt EXCEPT ![c] = NoExec]
    /\ log' = Append(log, cur[c])
    /\ pc' = [pc EXCEPT ![c] = IF config.IsReplica THEN "reply" ELSE "incr"]
    /\ UNCHANGED <<store, now, reply, currentOffset, replicas, clientStates, cur,
                   waitSt, lastReply, wire, connState, toMaster, issued>>
    /\ UNCHANGED varsReplica
    /\ UNCHANGED <<varsBlock, varsLocals>>

\* Parse on a connection the peer or the primary has closed returns an error
\* and handleClient leaves: removeClientState, conn.Close
ConnEOF(r) ==
    /\ pc[r] = "idle"
    /\ IF connState[r] = "closed" THEN TRUE
       ELSE connState[r] = "peer_closed" /\ Len(toMaster[r]) = 0
    /\ pc' = [pc EXCEPT ![r] = "closed"]
    /\ connState' = [connState EXCEPT ![r] = "closed"]
    /\ clientStates' = [clientStates EXCEPT ![r] = NewClientState]
    /\ UNCHANGED <<store, now, reply, currentOffset, replicas, cur, resp, waitSt,
                   execSt, lastReply, wire, toMaster, log, issued>>
    /\ UNCHANGED varsReplica
    /\ UNCHANGED <<varsBlock, varsLocals>>

(***************************************************************************)
(* handler.go, stream_manager.go: handleBlockingRead and the goroutines it *)
(* works with.                                                             *)
(***************************************************************************)
\* the channel handleBlockingRead gets for the stream index of the call
\* that connection c is in
ResultCh(c, index) == <<c, cur[c].id[2], index>>

\* the goroutine of handleBlockingRead for the stream index registers the
\* call; after the last of them (wg.Wait) the handler goes on
XReadRegister(c, index) ==
    /\ pc[c] = "xreg"
    /\ index \in (1..Len(xreadSt[c].keys)) \ xreadSt[c].registered
    /\ blockedClients' =
           [blockedClients EXCEPT ![xreadSt[c].keys[index].String] =
               RegisterBlockedClient(@, store, xreadSt[c].keys[index].String,
                                     xreadSt[c].ids[index].String,
                                     ResultCh(c, index), now)]
    /\ xreadSt' = [xreadSt EXCEPT ![c].registered = @ \cup {index}]
    /\ pc' = [pc EXCEPT ![c] =
                 IF xreadSt[c].registered \cup {index} = 1..Len(xreadSt[c].keys)
                 THEN "xwait" ELSE "xreg"]
    /\ UNCHANGED <<store, now, reply, currentOffset, replicas, clientStates, cur,
                   resp, waitSt, execSt, lastReply, wire, connState, toMaster,
                   log, issued, notifying>>
    /\ UNCHANGED varsReplica
    /\ UNCHANGED varsLocals

\* what NotifyNewEntry(key) sends to each of the clients in the list
RECURSIVE NotifyResults(_, _, _, _)
NotifyResults(st, key, clients, nowMs) ==
    IF Len(clients) = 0 THEN <<>>
    ELSE <<NotifyResult(st, key, Head(clients), nowMs)>>
             \o NotifyResults(st, key, Tail(clients), nowMs)

\* remainingClients: the clients to which nothing was sent
RECURSIVE RemainingClients(_, _)
RemainingClients(clients, sent) ==
    IF Len(clients) = 0 THEN <<>>
    ELSE (IF Head(sent) = NoResult THEN <<Head(clients)>> ELSE <<>>)
             \o RemainingClients(Tail(clients), Tail(sent))

\* a goroutine `go NotifyNewEntry(key)` runs: the clients of key for which
\* the stream has entries get them on their channel and leave the list
NotifyNewEntry(key) ==
    /\ notifying[key] > 0
    /\ notifying' = [notifying EXCEPT ![key] = @ - 1]
    /\ \E sent \in {NotifyResults(store, key, blockedClients[key], now)} :
          LET clients == blockedClients[key]
              \* what is on the channel ch, which a call in progress holds
              Arrives(ch, before) ==
                  IF \E n \in 1..Len(clients) :
                         clients[n].resultCh = ch /\ sent[n] # NoResult
                  THEN sent[CHOOSE n \in 1..Len(clients) :
                                clients[n].resultCh = ch /\ sent[n] # NoResult]
                  ELSE before
          IN /\ blockedClients' =
                    [blockedClients EXCEPT ![key] = RemainingClients(@, sent)]
             /\ xreadSt' =
                   [c \in Conns |->
                       IF pc[c] \in {"xreg", "xwait"}
                       THEN [xreadSt[c] EXCEPT !.resultChs =
                                [i \in DOMAIN @ |-> Arrives(ResultCh(c, i), @[i])]]
                       ELSE xreadSt[c]]
    /\ UNCHANGED <<store, now, reply, currentOffset, replicas, clientStates, pc,
                   cur, resp, waitSt, execSt, lastReply, wire, connState,
                   toMaster, log, issued>>
    /\ UNCHANGED varsReplica
    /\ UNCHANGED varsLocals

\* the listener goroutine of the stream index receives the result of its
\* channel and passes it on unless firstResultCh is full
XReadListen(c, index) ==
    /\ pc[c] = "xwait"
    /\ index \in (1..Len(xreadSt[c].keys)) \ xreadSt[c].listened
    /\ xreadSt[c].resultChs[index] # NoResult
    /\ xreadSt' = [xreadSt EXCEPT
                     ![c].listened = @ \cup {index},
                     ![c].firstResultCh =
                         IF @ = NoResult THEN xreadSt[c].resultChs[index] ELSE @]
    /\ UNCHANGED <<store, now, reply, currentOffset, replicas, clientStates, pc,
                   cur, resp, waitSt, execSt, lastReply, wire, connState,
                   toMaster, log, issued, blockedClients, notifying>>
    /\ UNCHANGED varsReplica
    /\ UNCHANGED varsLocals

\* the loop `for i := range numStreams` of RemoveBlockedClient calls on the
\* list of one key: chs are the channels of the call for that key
RECURSIVE RemoveEach(_, _)
RemoveEach(clients, chs) ==
    IF Len(chs) = 0 THEN clients
    ELSE RemoveEach(RemoveBlockedClient(clients, Head(chs)), Tail(chs))

\* the lists of the StreamManager after that loop of the call of c
Unregistered(c) ==
    LET Indices == [i \in 1..Len(xreadSt[c].keys) |-> i]
    IN [key \in DOMAIN blockedClients |->
           LET Mine(i) == xreadSt[c].keys[i].String = key
               Chs(q) == [n \in 1..Len(q) |-> ResultCh(c, q[n])]
           IN RemoveEach(blockedClients[key], Chs(SelectSeq(Indices, Mine)))]

\* handleBlockingRead returns response after its RemoveBlockedClient calls
XReadReturn(c, response) ==
    /\ blockedClients' = Unregistered(c)
    /\ resp' = [resp EXCEPT ![c] = [response |-> response, extraBytes |-> ZeroRESP]]
    /\ pc' = [pc EXCEPT ![c] = "reply"]
    /\ UNCHANGED <<store, now, reply, currentOffset, replicas, clientStates, cur,
                   waitSt, execSt, lastReply, wire, connState, toMaster, log,
                   issued, notifying, xreadSt>>
    /\ UNCHANGED varsReplica
    /\ UNCHANGED varsLocals

\* `case firstResult := <-firstResultCh`
XReadDeliver(c) ==
    /\ pc[c] = "xwait"
    /\ xreadSt[c].firstResultCh # NoResult
    /\ XReadReturn(c, NewArray(<<NewArray(xreadSt[c].firstResultCh)>>))

\* `case <-overallTimeoutChan`: the channel is nil unless blockMs > 0
XReadTimeout(c) ==
    /\ pc[c] = "xwait"
    /\ xreadSt[c].blockMs > 0
    /\ now >= xreadSt[c].endTime
    /\ XReadReturn(c, NewNullBulkString)

(***************************************************************************)
(* main.go: connectToMaster, the replication driver of a replica.          *)
(***************************************************************************)
\* the default of --port
ReplicaPort == 6379

varsPrimary == <<store, now, reply, currentOffset, replicas, clientStates, pc,
                 cur, resp, waitSt, execSt, lastReply, log, issued,
                 blockedClients, notifying, xreadSt, incrSt, xaddSt, streams,
                 pipe, rdb, config, mu>>

\* net.Dial and the PING
ReplicaConnect(r) ==
    /\ rpc[r] = "start"
    /\ rpc' = [rpc EXCEPT ![r] = "wait_pong"]
    /\ toMaster' = [toMaster EXCEPT ![r] = Append(@, Command(<<<<"PING">>>>))]
    /\ UNCHANGED <<rpos, rstore, rstate, rOffset, commandHistory, wire, connState>>
    /\ UNCHANGED varsPrimary

\* the handshake after the PING: the replica reads what the primary wrote
\* next and sends the next command, or gives up and closes the connection
ReplicaHandshake(r) ==
    /\ rpc[r] \in {"wait_pong", "wait_ok1", "wait_ok2", "wait_fullresync", "wait_rdb"}
    /\ rpos[r] < Len(wire[r])
    /\ LET item == wire[r][rpos[r] + 1].bytes
           IsSimple(str) == item.Type = SimpleString /\ item.String = str
           Send(words, next) ==
               /\ rpc' = [rpc EXCEPT ![r] = next]
               /\ toMaster' = [toMaster EXCEPT ![r] = Append(@, Command(words))]
               /\ UNCHANGED <<connState, rOffset>>
           GiveUp ==
               /\ rpc' = [rpc EXCEPT ![r] = "failed"]
               /\ connState' = [connState EXCEPT ![r] = "peer_closed"]
               /\ UNCHANGED <<toMaster, rOffset>>
       IN CASE rpc[r] = "wait_pong" ->
                 IF IsSimple(<<"PONG">>)
                 THEN Send(<<<<"REPLCONF">>, <<"listening-port">>,
                             FormatInt(ReplicaPort)>>, "wait_ok1")
                 ELSE GiveUp
            [] rpc[r] = "wait_ok1" ->
                 IF IsSimple(<<"OK">>)
                 THEN Send(<<<<"REPLCONF">>, <<"capa">>, <<"psync2">>>>, "wait_ok2")
                 ELSE GiveUp
            [] rpc[r] = "wait_ok2" ->
                 IF IsSimple(<<"OK">>)
                 THEN Send(<<<<"PSYNC">>, <<"?">>, <<"-", "1">>>>, "wait_fullresync")
                 ELSE GiveUp
            [] rpc[r] = "wait_fullresync" ->
                 \* the reply to PSYNC is read and not looked at
                 /\ rpc' = [rpc EXCEPT ![r] = "wait_rdb"]
                 /\ UNCHANGED <<toMaster, connState, rOffset>>
            [] rpc[r] = "wait_rdb" ->
                 \* the next byte must be the '$' of the RDB block
                 IF item.Type = "rdb"
                 THEN /\ rpc' = [rpc EXCEPT ![r] = "loop"]
                      /\ rOffset' = [rOffset EXCEPT ![r] = 0]
                      /\ UNCHANGED <<toMaster, connState>>
                 ELSE GiveUp
    /\ rpos' = [rpos EXCEPT ![r] = @ + 1]
    /\ UNCHANGED <<rstore, rstate, commandHistory, wire>>
    /\ UNCHANGED varsPrimary

\* the sum of commandHistory
RECURSIVE SumOf(_)
SumOf(q) == IF Len(q) = 0 THEN 0 ELSE Head(q) + SumOf(Tail(q))

\* execCommand on a replica: the queued commands run on the store, and
\* nothing is propagated
RECURSIVE RunQueued(_, _, _)
RunQueued(st, queued, nowMs) ==
    IF Len(queued) = 0 THEN st
    ELSE LET cmd == Head(queued).bytes
         IN RunQueued(StoreHandler(ToUpper(cmd.Array[1].String), st,
                                   Tail(cmd.Array), nowMs).store,
                      Tail(queued), nowMs)

\* a loop that calls no handler
ReplicaHandlerSkips(cmdName, args, st, state, nowMs) ==
    [store |-> st, state |-> state]

\* handler(args, conn) in the loop of connectToMaster: the store and the
\* ClientState of the replica afterwards
ReplicaHandler(cmdName, args, st, state, nowMs) ==
    IF cmdName \in StoreCommands
    THEN [store |-> StoreHandler(cmdName, st, args, nowMs).store, state |-> state]
    ELSE IF cmdName = <<"MULTI">>
    THEN [store |-> st, state |-> multiCommand(args, state).state]
    ELSE IF cmdName = <<"DISCARD">>
    THEN [store |-> st, state |-> discardCommand(args, state).state]
    ELSE IF cmdName = <<"EXEC">>
    THEN IF Len(args) > 0 THEN [store |-> st, state |-> state]
         ELSE [store |-> IF state.InTransaction
                         THEN RunQueued(st, state.QueuedCommands, nowMs) ELSE st,
               state |-> NewClientState]
    ELSE [store |-> st, state |-> state]

\* the test of connectToMaster for REPLCONF GETACK
IsGetAck(respObj) ==
    /\ Len(respObj.Array) >= 3
    /\ respObj.Array[1].Type = BulkString
    /\ ToUpper(respObj.Array[1].String) = <<"REPLCONF">>
    /\ respObj.Array[2].Type = BulkString
    /\ ToUpper(respObj.Array[2].String) = <<"GETACK">>

\* a loop that writes the response of every handler to the primary
ReplicaLoopReplies(r) ==
    /\ rpc[r] = "loop"
    /\ rpos[r] < Len(wire[r])
    /\ rpos' = [rpos EXCEPT ![r] = @ + 1]
    /\ LET respObj == wire[r][rpos[r] + 1].bytes
           bytesCount == MarshalLen(respObj)
           Continue == UNCHANGED <<rstore, rstate, rOffset, commandHistory, toMaster>>
       IN IF respObj.Type # Array \/ Len(respObj.Array) = 0 THEN Continue
          ELSE IF ~IsGetAck(respObj)
          THEN IF respObj.Array[1].Type # BulkString THEN Continue
               ELSE IF ToUpper(respObj.Array[1].String) \notin Commands THEN Continue
               ELSE LET cmdName == ToUpper(respObj.Array[1].String)
                    IN \E h \in {ReplicaHandler(cmdName, Tail(respObj.Array),
                                               rstore[r], rstate[r], now)} :
                       /\ cmdName \in Modelled
                       /\ rstore' = [rstore EXCEPT ![r] = h.store]
                       /\ rstate' = [rstate EXCEPT ![r] = h.state]
                       /\ commandHistory' =
                              [commandHistory EXCEPT ![r] = Append(@, bytesCount)]
                       /\ toMaster' = [toMaster EXCEPT ![r] =
                               Append(@, StoreHandler(cmdName, rstore[r],
                                          Tail(respObj.Array), now).reply)]
                       /\ UNCHANGED rOffset
          ELSE LET totalBytes == SumOf(commandHistory[r])
               IN /\ commandHistory' =
                         [commandHistory EXCEPT ![r] = Append(@, bytesCount)]
                  /\ rOffset' = [rOffset EXCEPT ![r] = totalBytes]
                  /\ toMaster' =
                         [toMaster EXCEPT ![r] =
                             Append(@, replconfCommand(Tail(respObj.Array),
                                                       totalBytes, TRUE))]
                  /\ UNCHANGED <<rstore, rstate>>
    /\ UNCHANGED <<rpc, wire, connState>>
    /\ UNCHANGED varsPrimary

\* one turn of the loop of connectToMaster: a frame of the propagation
\* stream is read; a command is run and its length is added to the history;
\* a GETACK is answered with the sum of the history before it
ReplicaLoop(r) ==
    /\ rpc[r] = "loop"
    /\ rpos[r] < Len(wire[r])
    /\ rpos' = [rpos EXCEPT ![r] = @ + 1]
    /\ LET respObj == wire[r][rpos[r] + 1].bytes
           bytesCount == MarshalLen(respObj)
           Continue == UNCHANGED <<rstore, rstate, rOffset, commandHistory, toMaster>>
       IN IF respObj.Type # Array \/ Len(respObj.Array) = 0 THEN Continue
          ELSE IF ~IsGetAck(respObj)
          THEN IF respObj.Array[1].Type # BulkString THEN Continue
               ELSE IF ToUpper(respObj.Array[1].String) \notin Commands THEN Continue
               ELSE LET cmdName == ToUpper(respObj.Array[1].String)
                    IN \E h \in {ReplicaHandler(cmdName, Tail(respObj.Array),
                                               rstore[r], rstate[r], now)} :
                       /\ cmdName \in Modelled
                       /\ rstore' = [rstore EXCEPT ![r] = h.store]
                       /\ rstate' = [rstate EXCEPT ![r] = h.state]
                       /\ commandHistory' =
                              [commandHistory EXCEPT ![r] = Append(@, bytesCount)]
                       /\ UNCHANGED <<rOffset, toMaster>>
          ELSE LET totalBytes == SumOf(commandHistory[r])
               IN /\ commandHistory' =
                         [commandHistory EXCEPT ![r] = Append(@, bytesCount)]
                  /\ rOffset' = [rOffset EXCEPT ![r] = totalBytes]
                  /\ toMaster' =
                         [toMaster EXCEPT ![r] =
                             Append(@, replconfCommand(Tail(respObj.Array),
                                                       totalBytes, TRUE))]
                  /\ UNCHANGED <<rstore, rstate>>
    /\ UNCHANGED <<rpc, wire, connState>>
    /\ UNCHANGED varsPrimary

(***************************************************************************)
(* A primary, its clients and its replicas (SpecRepl).                     *)
(***************************************************************************)
vars == <<store, now, reply, currentOffset, replicas, clientStates, pc, cur,
          resp, waitSt, execSt, lastReply, wire, connState, toMaster, rpc, rpos,
          rstore, rstate, rOffset, commandHistory, log, issued, blockedClients,
          notifying, xreadSt, incrSt, xaddSt, streams, pipe, rdb, config, mu>>

InitServer ==
    /\ store = NewKeyValueStore(Keys)
    /\ now = 1
    /\ reply = ZeroRESP
    /\ currentOffset = 0
    /\ replicas = <<>>
    /\ clientStates = [c \in Conns |-> NewClientState]
    /\ pc = [c \in Conns |-> "idle"]
    /\ cur = [c \in Conns |-> NoFrame]
    /\ resp = [c \in Conns |-> NoResp]
    /\ waitSt = [c \in Conns |-> NoWait]
    /\ execSt = [c \in Conns |-> NoExec]
    /\ lastReply = [c \in Clients |-> ZeroRESP]
    /\ wire = [r \in Replicas |-> <<>>]
    /\ connState = [r \in Replicas |-> "open"]
    /\ toMaster = [r \in Replicas |-> <<>>]
    /\ rpc = [r \in Replicas |-> "start"]
    /\ rpos = [r \in Replicas |-> 0]
    /\ rstore = [r \in Replicas |-> NewKeyValueStore(Keys)]
    /\ rstate = [r \in Replicas |-> NewClientState]
    /\ rOffset = [r \in Replicas |-> 0]
    /\ commandHistory = [r \in Replicas |-> <<>>]
    /\ log = <<>>
    /\ issued = 0
    /\ blockedClients = [k \in Keys |-> <<>>]
    /\ notifying = [k \in Keys |-> 0]
    /\ xreadSt = [c \in Conns |-> NoXread]
    /\ incrSt = [c \in Conns |-> NoIncr]
    /\ xaddSt = [c \in Conns |-> NoXadd]
    /\ streams = NoStreams
    /\ pipe = NoPipe
    /\ rdb = NoRDB
    /\ mu = NewRWMutex

\* the state after construction of a server started without --replicaof
Init ==
    /\ InitServer
    /\ config = NewServerConfig

\* what the clients of SpecRepl send
ReplCommands ==
    {Command(<<<<"SET">>, <<"k">>, v>>) : v \in {<<"1">>, <<"2">>}}
    \cup {Command(<<<<"WAIT">>, n, t>>) : n \in {<<"1">>, <<"2">>}, t \in {<<"0">>, <<"1">>}}

PrimaryStep(c) ==
    \/ Incr(c)
    \/ Propagate(c)
    \/ WriteReply(c)
    \/ WriteExtra(c)
    \/ Incr2(c)
    \/ WaitPoll(c)

ReplicaStep(r) ==
    \/ ReplicaConnect(r)
    \/ ReplicaHandshake(r)
    \/ ReplicaLoop(r)

NextRepl ==
    \/ \E c \in Clients, cmd \in ReplCommands : ClientCommand(c, cmd, MaxCmds)
    \/ \E r \in Replicas : ReplicaCommand(r)
    \/ \E c \in Conns : PrimaryStep(c)
    \/ \E r \in Replicas : ConnEOF(r)
    \/ WaitTick
    \/ \E r \in Replicas : ReplicaStep(r)

SpecRepl == Init /\ [][NextRepl]_vars

\* the goroutines of the primary and of the replicas keep running, and
\* the clock keeps ticking
FairSpecRepl ==
    /\ SpecRepl
    /\ \A c \in Conns : WF_vars(PrimaryStep(c))
    /\ \A r \in Replicas : WF_vars(ReplicaCommand(r))
    /\ \A r \in Replicas : WF_vars(ReplicaStep(r))
    /\ WF_vars(WaitTick)

(***************************************************************************)
(* A primary and the transactions of its clients (SpecTx).                 *)
(***************************************************************************)
TxCommands ==
    {Command(<<<<"MULTI">>>>), Command(<<<<"EXEC">>>>), Command(<<<<"DISCARD">>>>),
     Command(<<<<"SET">>, <<"k">>, <<"1">>>>), Command(<<<<"GET">>, <<"k">>>>)}

TxStep(c) ==
    \/ Incr(c)
    \/ Propagate(c)
    \/ WriteReply(c)
    \/ Incr2(c)
    \/ ExecStep(c)
    \/ ExecDone(c)

NextTx ==
    \/ \E c \in Clients, cmd \in TxCommands : ClientCommand(c, cmd, MaxTxCmds)
    \/ \E c \in Clients : TxStep(c)

SpecTx == Init /\ [][NextTx]_vars

(***************************************************************************)
(* One client and transactions with commands that fail (SpecExec).         *)
(***************************************************************************)
\* most commands the client of SpecExec sends
MaxExecCmds == 5

ExecCommands ==
    {Command(<<<<"MULTI">>>>), Command(<<<<"EXEC">>>>),
     Command(<<<<"SET">>, <<"k">>, <<"1">>>>), Command(<<<<"GET">>, <<"k">>>>),
     Command(<<<<"SET">>, <<"k">>>>), Command(<<<<"DEL">>, <<"k">>>>)}

NextExec ==
    \/ \E cmd \in ExecCommands : ClientCommand("c1", cmd, MaxExecCmds)
    \/ TxStep("c1")

SpecExec == Init /\ [][NextExec]_vars

(***************************************************************************)
(* Clients that read streams with XREAD and append with XADD (SpecXread).  *)
(***************************************************************************)
\* most commands the clients of SpecXread send, all together
MaxXreadCmds == 3

\* what the clients of SpecXread send
XreadCommands ==
    {Command(<<<<"XREAD">>, <<"STREAMS">>, <<"s">>, <<"0", "-", "0">>>>),
     Command(<<<<"XREAD">>, <<"BLOCK">>, <<"0">>, <<"STREAMS">>, <<"s">>,
               <<"0", "-", "0">>>>),
     Command(<<<<"XREAD">>, <<"BLOCK">>, <<"1">>, <<"STREAMS">>, <<"s">>,
               <<"0", "-", "0">>>>),
     Command(<<<<"XREAD">>, <<"BLOCK">>, <<"0">>, <<"STREAMS">>, <<"s">>, <<"k">>,
               <<"0", "-", "0">>, <<"$">>>>),
     Command(<<<<"XADD">>, <<"s">>, <<"1", "-", "1">>, <<"f">>, <<"v">>>>),
     Command(<<<<"XADD">>, <<"k">>, <<"1", "-", "1">>, <<"f">>, <<"v">>>>)}

XreadStep(c) ==
    \/ Incr(c)
    \/ Propagate(c)
    \/ WriteReply(c)
    \/ Incr2(c)
    \/ \E index \in 1..2 : XReadRegister(c, index)
    \/ \E index \in 1..2 : XReadListen(c, index)
    \/ XReadDeliver(c)
    \/ XReadTimeout(c)

NextXread ==
    \/ \E c \in Clients, cmd \in XreadCommands : ClientCommand(c, cmd, MaxXreadCmds)
    \/ \E c \in Clients : XreadStep(c)
    \/ \E key \in Keys : NotifyNewEntry(key)
    \/ Tick

SpecXread == Init /\ [][NextXread]_vars

\* the goroutines of the server are scheduled: the handlers, the
\* notifications and the clock go on; a client may send nothing more
FairSpecXread ==
    /\ SpecXread
    /\ \A c \in Clients : WF_vars(XreadStep(c))
    /\ \A key \in Keys : WF_vars(NotifyNewEntry(key))
    /\ WF_vars(Tick)

(***************************************************************************)
(* A client that sets a key with a TTL and reads it, the clock and the     *)
(* goroutines that delete expired keys (SpecExpiry).                       *)
(***************************************************************************)
\* most commands the client of SpecExpiry sends
MaxExpiryCmds == 3
\* the clock of SpecExpiry stops here
MaxExpiryNow == 4

\* what the client of SpecExpiry sends
ExpiryCommands ==
    {Command(<<<<"SET">>, <<"k">>, <<"1">>, <<"PX">>, <<"1">>>>),
     Command(<<<<"SET">>, <<"s">>, <<"1">>, <<"PX">>, <<"1">>>>),
     Command(<<<<"SET">>, <<"k">>, <<"2">>>>),
     Command(<<<<"SET">>, <<"k">>, <<"3">>, <<"NX">>>>),
     Command(<<<<"SET">>, <<"k">>, <<"4">>, <<"XX">>>>),
     Command(<<<<"GET">>, <<"k">>>>),
     Command(<<<<"KEYS">>, <<"*">>>>),
     Command(<<<<"TYPE">>, <<"k">>>>)}

\* a millisecond passes
Clock ==
    /\ now < MaxExpiryNow
    /\ now' = now + 1
    /\ UNCHANGED <<store, reply>>
    /\ UNCHANGED varsConns

\* a goroutine `go s.deleteExpiredKey(key)` runs. The readers start it when
\* they find the key expired; it looks at the expiry again, so that it
\* deletes the key exactly when the key is expired at the time it runs
DeleteExpired(key) ==
    /\ Expired(store, key, now)
    /\ store' = DeleteExpiredKey(store, key, now)
    /\ UNCHANGED <<now, reply>>
    /\ UNCHANGED varsConns

\* a tick of the ticker of cleanupExpiredKeys
Cleanup ==
    /\ store' = CleanupExpiredKeys(store, now)
    /\ UNCHANGED <<now, reply>>
    /\ UNCHANGED varsConns

NextExpiry ==
    \/ \E cmd \in ExpiryCommands : ClientCommand("c1", cmd, MaxExpiryCmds)
    \/ Incr("c1")
    \/ Propagate("c1")
    \/ WriteReply("c1")
    \/ Incr2("c1")
    \/ Clock
    \/ \E key \in Keys : DeleteExpired(key)
    \/ Cleanup

SpecExpiry == Init /\ [][NextExpiry]_vars

(***************************************************************************)
(* Clients that send frames of every kind (SpecFrames).                    *)
(***************************************************************************)
\* most frames the clients of SpecFrames send, all together
MaxFrames == 3

\* what Parse returns for the frames the clients of SpecFrames send
Frames ==
    {NewSimpleString(<<"PING">>), NewInteger(1), NewNullArray, NewArray(<<>>),
     NewArray(<<NewInteger(1)>>),
     Command(<<<<"PING">>>>), Command(<<<<"SET">>, <<"k">>, <<"1">>>>),
     Command(<<<<"GET">>, <<"k">>>>)}

\* the panic of a goroutine that nothing recovers ends the process: the
\* goroutines of the other connections run no more
Exit ==
    /\ \E c \in Conns : pc[c] = "panic"
    /\ \E c \in Conns : pc[c] \notin {"panic", "exited"}
    /\ pc' = [c \in Conns |-> IF pc[c] = "panic" THEN "panic" ELSE "exited"]
    /\ UNCHANGED <<store, now, reply, currentOffset, replicas, clientStates, cur,
                   resp, waitSt, execSt, lastReply, wire, connState, toMaster,
                   log, issued>>
    /\ UNCHANGED varsReplica
    /\ UNCHANGED <<varsBlock, varsLocals>>

FramesStep(c) ==
    \/ Incr(c)
    \/ Propagate(c)
    \/ WriteReply(c)
    \/ Incr2(c)

NextFrames ==
    \/ \E c \in Clients, f \in Frames : ClientCommand(c, f, MaxFrames)
    \/ \E c \in Clients : FramesStep(c)
    \/ Exit

SpecFrames == Init /\ [][NextFrames]_vars

(***************************************************************************)
(* A primary with one client and two replicas, either of which may go     *)
(* away at any time (SpecPropagate).                                       *)
(***************************************************************************)
\* most commands the client of SpecPropagate sends
MaxPropCmds == 1

\* the replicas of SpecPropagate
PropReplicas == {"r1", "r2"}
PropConns == {"c1"} \cup PropReplicas

\* the state after construction, with the connections of SpecPropagate
InitPropagate ==
    /\ store = NewKeyValueStore(Keys)
    /\ now = 1
    /\ reply = ZeroRESP
    /\ currentOffset = 0
    /\ replicas = <<>>
    /\ clientStates = [c \in PropConns |-> NewClientState]
    /\ pc = [c \in PropConns |-> "idle"]
    /\ cur = [c \in PropConns |-> NoFrame]
    /\ resp = [c \in PropConns |-> NoResp]
    /\ waitSt = [c \in PropConns |-> NoWait]
    /\ execSt = [c \in PropConns |-> NoExec]
    /\ lastReply = [c \in Clients |-> ZeroRESP]
    /\ wire = [r \in PropReplicas |-> <<>>]
    /\ connState = [r \in PropReplicas |-> "open"]
    /\ toMaster = [r \in PropReplicas |-> <<>>]
    /\ rpc = [r \in PropReplicas |-> "start"]
    /\ rpos = [r \in PropReplicas |-> 0]
    /\ rstore = [r \in PropReplicas |-> NewKeyValueStore(Keys)]
    /\ rstate = [r \in PropReplicas |-> NewClientState]
    /\ rOffset = [r \in PropReplicas |-> 0]
    /\ commandHistory = [r \in PropReplicas |-> <<>>]
    /\ log = <<>>
    /\ issued = 0
    /\ blockedClients = [k \in Keys |-> <<>>]
    /\ notifying = [k \in Keys |-> 0]
    /\ xreadSt = [c \in PropConns |-> NoXread]
    /\ incrSt = [c \in PropConns |-> NoIncr]
    /\ xaddSt = [c \in PropConns |-> NoXadd]
    /\ streams = NoStreams
    /\ pipe = NoPipe
    /\ rdb = NoRDB
    /\ mu = NewRWMutex
    /\ config = NewServerConfig

\* the process of the replica ends: connectToMaster is gone and the
\* connection is closed on its side
ReplicaKilled(r) ==
    /\ connState[r] = "open"
    /\ rpc[r] \notin {"start", "failed"}
    /\ rpc' = [rpc EXCEPT ![r] = "failed"]
    /\ connState' = [connState EXCEPT ![r] = "peer_closed"]
    /\ UNCHANGED <<rpos, rstore, rstate, rOffset, commandHistory, wire, toMaster>>
    /\ UNCHANGED varsPrimary

PropagateStep(c) ==
    \/ Incr(c)
    \/ Propagate(c)
    \/ WriteReply(c)
    \/ WriteExtra(c)
    \/ Incr2(c)

NextPropagate ==
    \/ ClientCommand("c1", Command(<<<<"SET">>, <<"k">>, <<"1">>>>), MaxPropCmds)
    \/ \E r \in PropReplicas : ReplicaCommand(r)
    \/ \E c \in PropConns : PropagateStep(c)
    \/ \E r \in PropReplicas : ConnEOF(r)
    \/ \E r \in PropReplicas : ReplicaStep(r)
    \/ \E r \in PropReplicas : ReplicaKilled(r)

SpecPropagate == InitPropagate /\ [][NextPropagate]_vars

(***************************************************************************)
(* Clients that set a key and increment it (SpecIncr).  incrCommand reads  *)
(* the store in one call and writes it in another one: the two are two     *)
(* steps, and the handlers of other connections run between them.          *)
(***************************************************************************)
\* most commands the clients of SpecIncr send, all together
MaxIncrCmds == 3

\* the values the clients of SpecIncr set: integers in the middle and at the
\* ends of the range of int64, and texts ParseInt refuses
IncrValues ==
    {<<"4", "1">>, <<"-", "1">>, <<"x">>,
     FormatInt(MaxInt64 - 1), FormatInt(MaxInt64), FormatInt(MinInt64),
     <<"2", "1", "4", "7", "4", "8", "3", "6", "4", "8">>}

\* a client sends INCR key, the primary reads it, and incrCommand runs up to
\* the return of GetStore().Get(key)
IncrRead(c, key) ==
    /\ pc[c] = "idle"
    /\ issued < MaxIncrCmds
    /\ ~clientStates[c].InTransaction
    /\ cur' = [cur EXCEPT ![c] =
                  Frame(Command(<<<<"INCR">>, key>>), <<c, issued + 1>>)]
    /\ incrSt' = [incrSt EXCEPT ![c] = Get(store, key, now)]
    /\ pc' = [pc EXCEPT ![c] = "incrw"]
    /\ issued' = issued + 1
    /\ UNCHANGED <<store, now, reply, currentOffset, replicas, clientStates, resp,
                   waitSt, execSt, lastReply, wire, connState, toMaster, log,
                   xaddSt, streams, pipe, rdb, config, mu>>
    /\ UNCHANGED varsReplica
    /\ UNCHANGED varsBlock

\* incrCommand from the return of Get to its own return
IncrWrite(c) ==
    /\ pc[c] = "incrw"
    /\ \E h \in {incrWrite(store, cur[c].bytes.Array[2].String, incrSt[c], now)} :
          /\ store' = h.store
          /\ resp' = [resp EXCEPT ![c] = [response |-> h.reply,
                                          extraBytes |-> ZeroRESP]]
    /\ incrSt' = [incrSt EXCEPT ![c] = NoIncr]
    /\ log' = Append(log, cur[c])
    /\ pc' = [pc EXCEPT ![c] = IF config.IsReplica THEN "reply" ELSE "incr"]
    /\ UNCHANGED <<now, reply, currentOffset, replicas, clientStates, cur, waitSt,
                   execSt, lastReply, wire, connState, toMaster, issued, xaddSt,
                   streams, pipe, rdb, config, mu>>
    /\ UNCHANGED varsReplica
    /\ UNCHANGED varsBlock

IncrStep(c) ==
    \/ IncrRead(c, <<"k">>)
    \/ IncrWrite(c)
    \/ Incr(c)
    \/ Propagate(c)
    \/ WriteReply(c)
    \/ Incr2(c)

NextIncr ==
    \/ \E c \in Clients, value \in IncrValues :
          ClientCommand(c, Command(<<<<"SET">>, <<"k">>, value>>), MaxIncrCmds)
    \/ \E c \in Clients : IncrStep(c)

SpecIncr == Init /\ [][NextIncr]_vars

(***************************************************************************)
(* Clients that append to one stream (SpecXadd).  xaddCommand gets the     *)
(* *Stream from the store in one call, works on it with no lock held and   *)
(* sets it in another call: two steps, with other handlers between them.   *)
(***************************************************************************)
\* most commands the clients of SpecXadd send, all together
MaxXaddCmds == 3

\* the IDs the clients of SpecXadd send
XaddIds == {<<"1", "-", "1">>, <<"1", "-", "*">>, <<"2", "-", "1">>}

\* a client sends XADD key id f v, the primary reads it, and xaddCommand
\* runs up to newEntry: it has got the stream, or made one, and has
\* checked the ID against the entries it sees
XAddRead(c, key, id) ==
    /\ pc[c] = "idle"
    /\ issued < MaxXaddCmds
    /\ ~clientStates[c].InTransaction
    /\ issued' = issued + 1
    /\ LET f == Frame(Command(<<<<"XADD">>, key, id, <<"f">>, <<"v">>>>),
                      <<c, issued + 1>>)
           got == GetStream(store, key, now)
       IN \E r \in {xaddCommand(store, Tail(f.bytes.Array), now)} :
             /\ cur' = [cur EXCEPT ![c] = f]
             /\ IF r.reply.Type = Error
                THEN /\ resp' = [resp EXCEPT ![c] = [response |-> r.reply,
                                                     extraBytes |-> ZeroRESP]]
                     /\ log' = Append(log, f)
                     /\ pc' = [pc EXCEPT ![c] = IF config.IsReplica THEN "reply" ELSE "incr"]
                     /\ UNCHANGED xaddSt
                ELSE /\ xaddSt' =
                            [xaddSt EXCEPT ![c] =
                                [stream |-> IF got.exists THEN streams.at[key]
                                            ELSE NoId,
                                 Entries |-> got.stream,
                                 newEntry |->
                                     LET added == GetStream(r.store, key, now).stream
                                     IN added[Len(added)]]]
                     /\ pc' = [pc EXCEPT ![c] = "xaddw"]
                     /\ UNCHANGED <<resp, log>>
    /\ UNCHANGED <<store, now, reply, currentOffset, replicas, clientStates,
                   waitSt, execSt, lastReply, wire, connState, toMaster, incrSt,
                   streams, pipe, rdb, config, mu>>
    /\ UNCHANGED varsReplica
    /\ UNCHANGED varsBlock

\* `stream.Entries = append(stream.Entries, newEntry)` and GetStore().Set:
\* the append is on the *Stream the handler holds, which other handlers may
\* hold too, and it is not synchronized with their appends, so that it adds
\* to the entries the object has now or to those the handler has read
XAddWrite(c) ==
    /\ pc[c] = "xaddw"
    /\ LET key == cur[c].bytes.Array[2].String
           own == xaddSt[c].stream = NoId
           obj == IF own THEN cur[c].id ELSE xaddSt[c].stream
       IN \E base \in IF own THEN {<<>>}
                      ELSE {streams.Entries[obj], xaddSt[c].Entries} :
             \E entries \in {Append(base, xaddSt[c].newEntry)} :
                /\ streams' = [Entries |-> (obj :> entries) @@ streams.Entries,
                               at |-> [streams.at EXCEPT ![key] = obj]]
                /\ \E st \in {Set(store, key, StreamValue(entries), 0, now)} :
                      /\ store' = st
                      /\ notifying' = Notified(notifying, store, st)
    /\ resp' = [resp EXCEPT ![c] =
                    [response |-> NewBulkString(xaddSt[c].newEntry.ID),
                     extraBytes |-> ZeroRESP]]
    /\ xaddSt' = [xaddSt EXCEPT ![c] = NoXadd]
    /\ log' = Append(log, cur[c])
    /\ pc' = [pc EXCEPT ![c] = IF config.IsReplica THEN "reply" ELSE "incr"]
    /\ UNCHANGED <<now, reply, currentOffset, replicas, clientStates, cur, waitSt,
                   execSt, lastReply, wire, connState, toMaster, issued,
                   blockedClients, xreadSt, incrSt, pipe,
                   rdb, config, mu>>
    /\ UNCHANGED varsReplica

XaddStep(c) ==
    \/ \E id \in XaddIds : XAddRead(c, <<"s">>, id)
    \/ XAddWrite(c)
    \/ Incr(c)
    \/ Propagate(c)
    \/ WriteReply(c)
    \/ Incr2(c)

NextXadd ==
    \/ \E c \in Clients : XaddStep(c)
    \/ \E key \in StreamKeys : NotifyNewEntry(key)

SpecXadd == Init /\ [][NextXadd]_vars

(***************************************************************************)
(* Values that are marshalled into a connection and parsed out of it       *)
(* (SpecResp).                                                             *)
(***************************************************************************)
\* most values that are written to the connection of SpecResp
MaxResp == 2

\* values that are no arrays: simple strings and errors without CR and LF,
\* integers, bulk strings with CR and LF in them, the empty and the null one
RespScalars ==
    {NewSimpleString(<<>>), NewSimpleString(<<"O", "K">>),
     NewError(<<"E", " ", "x">>),
     NewInteger(0), NewInteger(-1), NewInteger(120),
     NewBulkString(<<>>), NewBulkString(<<"a">>),
     NewBulkString(<<"\r", "\n">>), NewBulkString(<<"$", "-", "1", "\r", "\n">>),
     NewNullBulkString}

\* arrays of values that are no arrays, the empty and the null one
RespArrays ==
    {NewNullArray, NewArray(<<>>)}
    \cup {NewArray(<<x>>) : x \in RespScalars}
    \cup {NewArray(<<x, y>>) :
              x \in {NewBulkString(<<"a">>), NewNullBulkString},
              y \in {NewInteger(-1), NewBulkString(<<>>)}}

\* the values of SpecResp, arrays of arrays among them
RespValues ==
    RespScalars \cup RespArrays
    \cup {NewArray(<<x, y>>) :
              x \in {NewNullArray, NewArray(<<>>),
                     NewArray(<<NewBulkString(<<"a">>), NewInteger(-1)>>)},
              y \in {NewArray(<<NewNullBulkString>>), NewSimpleString(<<"O", "K">>)}}

\* conn.Write([]byte(v.Marshal()))
RespWrite(v) ==
    /\ Len(pipe.sent) < MaxResp
    /\ pipe' = [pipe EXCEPT !.sent = Append(@, v), !.bytes = @ \o Marshal(v)]
    /\ UNCHANGED <<store, now, reply, currentOffset, replicas, clientStates, pc,
                   cur, resp, waitSt, execSt, lastReply, wire, connState,
                   toMaster, log, issued, incrSt, xaddSt, streams,
                   rdb, config, mu>>
    /\ UNCHANGED varsReplica
    /\ UNCHANGED varsBlock

\* Parse(reader) on the other end: a value, or an error and the end of the
\* reading
RespRead ==
    /\ Len(pipe.bytes) > 0
    /\ ~pipe.panic
    /\ \E p \in {Parse(pipe.bytes)} :
          pipe' = IF p.panic THEN [pipe EXCEPT !.panic = TRUE]
                  ELSE [pipe EXCEPT !.bytes = p.rest,
                                    !.received = Append(@, IF p.ok THEN p.value
                                                           ELSE ZeroRESP)]
    /\ UNCHANGED <<store, now, reply, currentOffset, replicas, clientStates, pc,
                   cur, resp, waitSt, execSt, lastReply, wire, connState,
                   toMaster, log, issued, incrSt, xaddSt, streams,
                   rdb, config, mu>>
    /\ UNCHANGED varsReplica
    /\ UNCHANGED varsBlock

NextResp ==
    \/ \E v \in RespValues : RespWrite(v)
    \/ RespRead

SpecResp == Init /\ [][NextResp]_vars

(***************************************************************************)
(* Bytes that are written to a connection, well-formed frames and others,  *)
(* and parsed out of it (SpecParse).                                       *)
(***************************************************************************)
\* most byte sequences that are written to the connection of SpecParse
MaxRaw == 2

\* frames as Marshal writes them
WellFormedFrames ==
    {<<"+", "O", "K", "\r", "\n">>,
     <<":", "-", "1", "\r", "\n">>,
     <<"$", "1", "\r", "\n", "a", "\r", "\n">>,
     <<"$", "-", "1", "\r", "\n">>,
     <<"*", "1", "\r", "\n", ":", "1", "\r", "\n">>}

\* byte sequences that are no frames: an unknown type byte, a CR that no LF
\* follows, an integer, a length and a count that are no numbers, a length
\* and a count below -1 (the second one inside an array too), data that CR LF
\* does not follow, and data the bytes end in
MalformedFrames ==
    {<<"?", "x", "\r", "\n">>,
     <<"+", "O", "\r", "K", "\n">>,
     <<":", "x", "\r", "\n">>,
     <<"$", "x", "\r", "\n">>,
     <<"*", "x", "\r", "\n">>,
     <<"$", "-", "2", "\r", "\n">>,
     <<"*", "-", "2", "\r", "\n">>,
     <<"*", "1", "\r", "\n", "$", "-", "2", "\r", "\n">>,
     <<"$", "1", "\r", "\n", "a", "X", "Y">>,
     <<"$", "1", "\r", "\n", "a">>}

\* a peer writes bytes to the connection once those before them are read
RawWrite(bytes) ==
    /\ Len(pipe.sent) < MaxRaw
    /\ pipe.bytes = <<>>
    /\ ~pipe.panic
    /\ pipe' = [pipe EXCEPT !.sent = Append(@, ZeroRESP), !.bytes = bytes]
    /\ UNCHANGED <<store, now, reply, currentOffset, replicas, clientStates, pc,
                   cur, resp, waitSt, execSt, lastReply, wire, connState,
                   toMaster, log, issued, incrSt, xaddSt, streams,
                   rdb, config, mu>>
    /\ UNCHANGED varsReplica
    /\ UNCHANGED varsBlock

NextParse ==
    \/ \E bytes \in WellFormedFrames \cup MalformedFrames : RawWrite(bytes)
    \/ RespRead

SpecParse == Init /\ [][NextParse]_vars

(***************************************************************************)
(* Entries with several fields are appended to a stream and read with      *)
(* XRANGE (SpecFields); log holds the XADD commands that appended an entry. *)
(***************************************************************************)
\* most XADD commands that append an entry
MaxFieldCmds == 3

\* the fields and values a client gives to XADD: one pair, two pairs in the
\* two orders, and two pairs with one name
FieldLists ==
    {<<<<"f">>, <<"v">>>>,
     <<<<"f">>, <<"v">>, <<"g">>, <<"w">>>>,
     <<<<"g">>, <<"w">>, <<"f">>, <<"v">>>>,
     <<<<"f">>, <<"a">>, <<"f">>, <<"b">>>>}

FieldIds == {<<"1", "-", "1">>, <<"2", "-", "1">>, <<"3", "-", "1">>}

\* the server executes XADD s id fields...
XAddFields(id, fields) ==
    /\ Len(log) < MaxFieldCmds
    /\ \E cmd \in {Command(<<<<"XADD">>, <<"s">>, id>> \o fields)} :
          \E r \in {xaddCommand(store, Tail(cmd.Array), now)} :
             /\ store' = r.store
             /\ reply' = r.reply
             /\ notifying' = Notified(notifying, store, r.store)
             /\ log' = IF r.reply.Type = BulkString
                       THEN Append(log, Frame(cmd, <<"c1", Len(log) + 1>>))
                       ELSE log
    /\ UNCHANGED <<now, currentOffset, replicas, clientStates, pc, cur, resp,
                   waitSt, execSt, lastReply, wire, connState, toMaster, issued,
                   blockedClients, xreadSt>>
    /\ UNCHANGED varsReplica
    /\ UNCHANGED varsLocals

\* the server executes XRANGE s - +
XRange ==
    /\ LET stream == GetStream(store, <<"s">>, now).stream
           Orders == {order \in [1..Len(stream) ->
                                     UNION {FieldOrders(stream[i].Fields) :
                                                i \in 1..Len(stream)}] :
                         \A i \in 1..Len(stream) :
                            order[i] \in FieldOrders(stream[i].Fields)}
       IN \E order \in Orders :
             reply' = xrangeCommand(store,
                                    <<NewBulkString(<<"s">>), NewBulkString(<<"-">>),
                                      NewBulkString(<<"+">>)>>, now, order)
    /\ UNCHANGED <<store, now>>
    /\ UNCHANGED varsConns

NextFields ==
    \/ \E id \in FieldIds, fields \in FieldLists : XAddFields(id, fields)
    \/ XRange
    \/ NotifyNewEntry(<<"s">>)

SpecFields == Init /\ [][NextFields]_vars

(***************************************************************************)
(* The server starts with an RDB file (SpecLoad): main loads the file      *)
(* before it listens, and then the clients read.                           *)
(***************************************************************************)
MaxRdbItems == 3
MaxLoadCmds == 2

\* an item of `typeByte` with the fields of its kind
RdbItem(typeByte, valueType, expiry, key, value, complete) ==
    [typeByte |-> typeByte, valueType |-> valueType, expiry |-> expiry,
     key |-> key, value |-> value, complete |-> complete]

\* the items of the files: strings, strings with an instant in the past and
\* in the future, a list (value type 1), metadata, the end mark, and items
\* the file ends in
RdbItems ==
    {RdbItem(RDB_TYPE_STRING, 0, 0, <<"k">>, <<"1">>, TRUE),
     RdbItem(RDB_TYPE_STRING, 0, 0, <<"s">>, <<"2">>, TRUE),
     RdbItem(RDB_TYPE_STRING, 0, 0, <<"k">>, <<>>, FALSE),
     RdbItem(1, 0, 0, <<"k">>, <<>>, TRUE),
     RdbItem(RDB_OPCODE_EXPIRETIMEMS, RDB_TYPE_STRING, 3, <<"k">>, <<"3">>, TRUE),
     RdbItem(RDB_OPCODE_EXPIRETIMEMS, RDB_TYPE_STRING, 1, <<"s">>, <<"4">>, TRUE),
     RdbItem(RDB_OPCODE_EXPIRETIMEMS, 1, 3, <<"s">>, <<>>, TRUE),
     RdbItem(RDB_OPCODE_EXPIRETIME, RDB_TYPE_STRING, 1, <<"s">>, <<"5">>, TRUE),
     RdbItem(RDB_OPCODE_AUX, 0, 0, <<>>, <<>>, TRUE),
     RdbItem(RDB_OPCODE_SELECTDB, 0, 0, <<>>, <<>>, TRUE),
     RdbItem(RDB_OPCODE_RESIZEDB, 0, 0, <<>>, <<>>, FALSE),
     RdbItem(RDB_OPCODE_EOF, 0, 0, <<>>, <<>>, TRUE)}

RdbFiles ==
    {[signature |-> sig, items |-> items] :
        sig \in {<<"REDIS">>, <<"RUBIS">>},
        items \in UNION {[1..n -> RdbItems] : n \in 0..MaxRdbItems}}

\* what the clients of SpecLoad send
LoadCommands ==
    {Command(<<<<"GET">>, <<"k">>>>), Command(<<<<"GET">>, <<"s">>>>),
     Command(<<<<"KEYS">>, <<"*">>>>), Command(<<<<"TYPE">>, <<"k">>>>)}

\* main: os.Stat finds the file and ParseRDB(rdbPath, GetStore()) runs, before
\* net.Listen. An error is printed and main goes on with the store
LoadRDB(file) ==
    /\ rdb = NoRDB
    /\ issued = 0
    /\ LET loaded == ParseRDB(file, store, now)
       IN  /\ store' = loaded.store
           /\ rdb' = IF loaded.err THEN "failed" ELSE "loaded"
    /\ UNCHANGED <<now, reply, currentOffset, replicas, clientStates, pc, cur,
                   resp, waitSt, execSt, lastReply, wire, connState, toMaster,
                   log, issued, incrSt, xaddSt, streams, pipe,
                   config, mu>>
    /\ UNCHANGED varsReplica
    /\ UNCHANGED varsBlock

NextLoad ==
    \/ \E file \in RdbFiles : LoadRDB(file)
    \/ \E c \in Clients, cmd \in LoadCommands : ClientCommand(c, cmd, MaxLoadCmds)
    \/ \E c \in Clients : WriteReply(c)
    \/ Clock

SpecLoad == Init /\ [][NextLoad]_vars

(***************************************************************************)
(* Clients that block on a stream from `$` and from an ID while others     *)
(* append to it (SpecNotify).                                              *)
(***************************************************************************)
\* most commands the clients of SpecNotify send, all together
MaxNotifyCmds == 3

NotifyCommands ==
    {Command(<<<<"XREAD">>, <<"BLOCK">>, <<"0">>, <<"STREAMS">>, <<"s">>, <<"$">>>>),
     Command(<<<<"XREAD">>, <<"BLOCK">>, <<"0">>, <<"STREAMS">>, <<"s">>,
               <<"1", "-", "1">>>>),
     Command(<<<<"XADD">>, <<"s">>, <<"1", "-", "1">>, <<"f">>, <<"v">>>>),
     Command(<<<<"XADD">>, <<"s">>, <<"2", "-", "1">>, <<"f">>, <<"v">>>>)}

NextNotify ==
    \/ \E c \in Clients, cmd \in NotifyCommands : ClientCommand(c, cmd, MaxNotifyCmds)
    \/ \E c \in Clients : Incr(c)
    \/ \E c \in Clients : Propagate(c)
    \/ \E c \in Clients : WriteReply(c)
    \/ \E c \in Clients : Incr2(c)
    \/ \E c \in Clients : XReadRegister(c, 1)
    \/ \E c \in Clients : XReadListen(c, 1)
    \/ \E c \in Clients : XReadDeliver(c)
    \/ \E key \in Keys : NotifyNewEntry(key)

SpecNotify == Init /\ [][NextNotify]_vars

(***************************************************************************)
(* A server with a replica connected to it, started with or without        *)
(* --replicaof, and a client that sends transactions (SpecExecRepl).       *)
(***************************************************************************)
\* most commands the client of SpecExecRepl sends
MaxExecReplCmds == 5

ExecReplCommands ==
    {Command(<<<<"MULTI">>>>), Command(<<<<"EXEC">>>>),
     Command(<<<<"SET">>, <<"k">>, <<"1">>>>), Command(<<<<"GET">>, <<"k">>>>),
     Command(<<<<"XADD">>, <<"s">>, <<"1", "-", "1">>, <<"f">>, <<"v">>>>)}

\* InitConfig has run, with --replicaof or without it
InitExecRepl ==
    /\ InitServer
    /\ config \in {[IsReplica |-> isReplica] : isReplica \in BOOLEAN}

\* the client sends a command once the replica is in the table and has
\* finished its handshake
ExecReplCommand(cmd) ==
    /\ Len(replicas) > 0
    /\ rpc["r1"] = "loop"
    /\ ClientCommand("c1", cmd, MaxExecReplCmds)

NextExecRepl ==
    \/ \E cmd \in ExecReplCommands : ExecReplCommand(cmd)
    \/ TxStep("c1")
    \/ ReplicaCommand("r1")
    \/ Incr("r1")
    \/ WriteReply("r1")
    \/ WriteExtra("r1")
    \/ ReplicaStep("r1")

SpecExecRepl == InitExecRepl /\ [][NextExecRepl]_vars

(***************************************************************************)
(* A replica and a primary that is another program (SpecDriver): the       *)
(* primary answers the handshake and then sends the frames it likes.       *)
(***************************************************************************)
\* the primary answers the next frame of the replica
MasterReply(r) ==
    /\ Len(toMaster[r]) > 0
    /\ toMaster' = [toMaster EXCEPT ![r] = Tail(@)]
    /\ LET name == Head(toMaster[r]).Array[1].String
           answer ==
               IF name = <<"PING">> THEN <<NewSimpleString(<<"PONG">>)>>
               ELSE IF name = <<"PSYNC">>
               THEN <<psyncCommand(0), RDBBlock>>
               ELSE IF Head(toMaster[r]).Array[2].String = <<"ACK">> THEN <<>>
               ELSE <<NewSimpleString(<<"OK">>)>>
       IN wire' = [wire EXCEPT ![r] =
                      @ \o [i \in 1..Len(answer) |-> Frame(answer[i], NoId)]]
    /\ UNCHANGED <<connState, rpc, rpos, rstore, rstate, rOffset, commandHistory>>
    /\ UNCHANGED varsPrimary

\* what the primary of SpecDriver propagates: commands of the registry, one
\* of them answered with an error, a command that is not in it, and a frame
\* that is not an array
StreamFrames ==
    {Command(<<<<"SET">>, <<"k">>, <<"1">>>>),
     Command(<<<<"PING">>>>),
     Command(<<<<"DEL">>, <<"k">>>>),
     Command(<<<<"GET">>>>),
     GetAckCommand,
     NewSimpleString(<<"OK">>)}

\* the primary writes a frame of its propagation stream
MasterSend(r, frame) ==
    /\ \E i \in 1..Len(wire[r]) :
          /\ wire[r][i].bytes.Type = "rdb"
          /\ Len(wire[r]) - i < MaxStream
    /\ wire' = [wire EXCEPT ![r] = Append(@, Frame(frame, NoId))]
    /\ UNCHANGED <<connState, toMaster, rpc, rpos, rstore, rstate, rOffset,
                   commandHistory>>
    /\ UNCHANGED varsPrimary

NextDriver ==
    \/ \E r \in Replicas : ReplicaStep(r)
    \/ \E r \in Replicas : MasterReply(r)
    \/ \E r \in Replicas, frame \in StreamFrames : MasterSend(r, frame)

SpecDriver == Init /\ [][NextDriver]_vars

\* what a primary that is another program may answer to a frame of the
\* handshake: the replies of this program, an error, and an error followed
\* by an RDB block
HandshakeAnswers ==
    {<<NewSimpleString(<<"PONG">>)>>,
     <<NewSimpleString(<<"OK">>)>>,
     <<NewError(<<"ERR">>)>>,
     <<psyncCommand(0), RDBBlock>>,
     <<NewError(<<"ERR">>), RDBBlock>>}

\* the primary answers the next frame of the replica with an answer of its
\* choice
MasterAnswer(r, answer) ==
    /\ Len(toMaster[r]) > 0
    /\ rpc[r] # "loop"
    /\ toMaster' = [toMaster EXCEPT ![r] = Tail(@)]
    /\ wire' = [wire EXCEPT ![r] =
                   @ \o [i \in 1..Len(answer) |-> Frame(answer[i], NoId)]]
    /\ UNCHANGED <<connState, rpc, rpos, rstore, rstate, rOffset, commandHistory>>
    /\ UNCHANGED varsPrimary

NextHandshake ==
    \/ \E r \in Replicas : ReplicaStep(r)
    \/ \E r \in Replicas, answer \in HandshakeAnswers : MasterAnswer(r, answer)
    \/ \E r \in Replicas, frame \in StreamFrames : MasterSend(r, frame)

SpecHandshake == Init /\ [][NextHandshake]_vars

\* one server and the XADD commands of its clients
SpecStream == Init /\ [][NextStream]_vars

(***************************************************************************)
(* Replication: what the histories say.                                    *)
(***************************************************************************)
\* the write commands among the frames q, by their ids
CmdIds(q) ==
    LET IsCmd(f) == f.id # NoId
        cmds == SelectSeq(q, IsCmd)
    IN [i \in 1..Len(cmds) |-> cmds[i].id]

LogIds == [i \in 1..Len(log) |-> log[i].id]

\* the place of a command in the order in which the primary ran the handlers
LogPos(id) == CHOOSE i \in 1..Len(log) : log[i].id = id

\* the bytes of the frames of the log
RECURSIVE FrameBytes(_)
FrameBytes(q) ==
    IF Len(q) = 0 THEN 0 ELSE MarshalLen(Head(q).bytes) + FrameBytes(Tail(q))

\* where the RDB block is on the wire of r, 0 when it is not there
RdbPos(r) ==
    IF \E i \in 1..Len(wire[r]) : wire[r][i].bytes.Type = "rdb"
    THEN CHOOSE i \in 1..Len(wire[r]) : wire[r][i].bytes.Type = "rdb"
    ELSE 0

Registered(r) == \E i \in 1..Len(replicas) : replicas[i].Conn = r

Quiet == \A c \in Conns : pc[c] \in {"idle", "closed"}

\* C2: the offset every replica record holds, the last one the replica
\* reported in REPLCONF ACK, is at most the offset of the primary
C2_AckedAtMostMaster ==
    \A i \in 1..Len(replicas) : replicas[i].Offset <= currentOffset

\* C3: when no command is in progress, the offset of the primary is the
\* number of bytes of the frames of the write commands it has run, each
\* counted once
C3_OffsetIsFrameBytes ==
    Quiet => currentOffset = FrameBytes(log)

\* C5: two write commands of different clients are on the wire of every
\* replica in the order in which the primary ran their handlers
C5_ReplicaOrderIsApplyOrder ==
    \A r \in Replicas :
        LET ids == CmdIds(wire[r])
        IN \A i, j \in 1..Len(ids) :
              (i < j /\ ids[i][1] # ids[j][1]) => LogPos(ids[i]) < LogPos(ids[j])

\* C6: the write frames on the wire of a replica are a prefix of the log of
\* the write commands the primary has run
C6_ReplicaHasPrefixOfLog ==
    \A r \in Replicas :
        LET ids == CmdIds(wire[r])
        IN /\ Len(ids) <= Len(log)
           /\ ids = SubSeq(LogIds, 1, Len(ids))

\* C8: a connection in the replica table has its FULLRESYNC line and its RDB
\* block written, and no frame of a write command is on its wire before the
\* RDB block
C8_RegisteredAfterRdb ==
    \A r \in Replicas :
        /\ Registered(r) => RdbPos(r) > 0
        /\ \A i \in 1..Len(wire[r]) :
              wire[r][i].id # NoId => (RdbPos(r) > 0 /\ RdbPos(r) < i)

(***************************************************************************)
(* The replication driver, WAIT and the transactions: what they promise.   *)
(***************************************************************************)
\* the bytes of the frames wire[r][from..to]
WireBytes(r, from, to) ==
    FrameBytes(SubSeq(wire[r], from, to))

\* C4: the reply of a replica to REPLCONF GETACK * is REPLCONF ACK n, n the
\* bytes of all the frames it has read after the RDB block and before this
\* GETACK
C4_AckCountsAllFrames ==
    [][\A r \in Replicas :
          (/\ rpc[r] = "loop"
           /\ rpos'[r] = rpos[r] + 1
           /\ IsGetAck(wire[r][rpos'[r]].bytes))
          => toMaster'[r] =
                 Append(toMaster[r],
                        Command(<<<<"REPLCONF">>, <<"ACK">>,
                                  FormatInt(WireBytes(r, RdbPos(r) + 1, rpos[r]))>>))]_vars

\* the command number n is in the log of the primary
InLog(n) == \E i \in 1..Len(log) : log[i].id[2] = n

\* the replica r has read the frame of the command number n after its RDB block
Consumed(r, n) ==
    \E i \in 1..rpos[r] : wire[r][i].id[2] = n /\ RdbPos(r) > 0 /\ RdbPos(r) < i

\* C7: once a replica has completed the handshake, every SET the primary
\* runs afterwards is read by the replica in the end, and when the replica
\* reads the frame of SET k v, a GET k on it finds v
C7_SetReachesReplica ==
    /\ \A r \in Replicas : \A n \in 1..MaxCmds :
          [](rpc[r] = "loop" /\ issued < n => [](InLog(n) => <>Consumed(r, n)))
    /\ [][\A r \in Replicas :
             (/\ rpc[r] = "loop"
              /\ rpos'[r] = rpos[r] + 1
              /\ wire[r][rpos'[r]].id # NoId)
             => LET cmd == wire[r][rpos'[r]].bytes
                IN getCommand(rstore'[r], <<cmd.Array[2]>>, now)
                       = NewBulkString(cmd.Array[3].String)]_vars

\* a replica has read and applied a SET that the primary sent after the RDB
\* block
C7_Witness ==
    \E r \in Replicas : \E n \in 1..MaxCmds :
        /\ rpc[r] = "loop"
        /\ Consumed(r, n)
        /\ Get(rstore[r], <<"k">>, now).exists

IsWait(f) ==
    /\ f.bytes.Type = Array
    /\ Len(f.bytes.Array) = 3
    /\ ToUpper(f.bytes.Array[1].String) = <<"WAIT">>

\* the replica records whose offset is at least offset
Acked(offset) == Cardinality({i \in 1..Len(replicas) : replicas[i].Offset >= offset})

\* C9: WAIT n t replies 0 at once when the replica table is empty; otherwise
\* it takes the offset of the primary during the call, replies the number of
\* replica records whose offset is at least that one, leaves before
\* now + t only when that number is at least n, and always leaves
C9_WaitCountsAcked ==
    /\ [][\A c \in Clients :
             /\ (pc[c] = "idle" /\ pc'[c] # "idle" /\ IsWait(cur'[c]))
                => IF Len(replicas) = 0
                   THEN /\ pc'[c] = "reply"
                        /\ resp'[c].response = NewInteger(0)
                   ELSE /\ pc'[c] = "wait"
                        /\ waitSt'[c].currentOffset = currentOffset
                        /\ waitSt'[c].endTime =
                               now + ParseInt(cur'[c].bytes.Array[3].String).val
             /\ (pc[c] = "wait" /\ pc'[c] # "wait")
                => /\ pc'[c] = "reply"
                   /\ resp'[c].response = NewInteger(Acked(waitSt[c].currentOffset))
                   /\ now < waitSt[c].endTime
                          => Acked(waitSt[c].currentOffset)
                                 >= ParseInt(cur[c].bytes.Array[2].String).val]_vars
    /\ \A c \in Clients : (pc[c] = "wait") ~> (pc[c] # "wait")

\* a WAIT has left its loop with the count 1 before its deadline
C9_Witness ==
    \E c \in Clients :
        /\ pc[c] = "reply"
        /\ IsWait(cur[c])
        /\ Len(replicas) > 0
        /\ now < waitSt[c].endTime
        /\ resp[c].response = NewInteger(1)

\* C10: the queue of a connection that is not in a transaction is empty
C10_QueueEmptyOutsideTransaction ==
    \A c \in Conns :
        ~clientStates[c].InTransaction => clientStates[c].QueuedCommands = <<>>

\* a client has queued a command and left the transaction with DISCARD
C10_Witness ==
    \E c \in Clients :
        /\ pc[c] = "reply"
        /\ cur[c].bytes = Command(<<<<"DISCARD">>>>)
        /\ resp[c].response = NewSimpleString(<<"OK">>)
        /\ lastReply[c] = NewSimpleString(<<"QUEUED">>)
        /\ ~clientStates[c].InTransaction

(***************************************************************************)
(* Transactions: what MULTI, EXEC and DISCARD promise.                     *)
(***************************************************************************)
Queued == NewSimpleString(<<"QUEUED">>)

\* the connection c takes a step of the command it answers +QUEUED
QueuedStep(c) == pc'[c] # pc[c] /\ resp'[c].response = Queued

\* C11: a command that a connection in a transaction sends, other than EXEC,
\* DISCARD and MULTI, is appended to the queue of the connection and
\* answered +QUEUED, and no step of it changes the store, the offset of the
\* primary, the bytes sent to the replicas or the session of another
\* connection
C11_QueuedCommandHasNoEffect ==
    [][\A c \in Clients :
          /\ (/\ pc[c] = "idle" /\ pc'[c] # "idle"
              /\ clientStates[c].InTransaction
              /\ ToUpper(cur'[c].bytes.Array[1].String)
                     \notin {<<"EXEC">>, <<"MULTI">>, <<"DISCARD">>})
             => /\ resp'[c].response = Queued
                /\ clientStates'[c] =
                       [clientStates[c] EXCEPT !.QueuedCommands = Append(@, cur'[c])]
          /\ QueuedStep(c)
             => /\ store' = store
                /\ currentOffset' = currentOffset
                /\ wire' = wire
                /\ \A o \in Conns \ {c} : clientStates'[o] = clientStates[o]]_vars

\* the connection c takes a turn of the loop of execCommand
ExecTurn(c) == pc[c] = "exec" /\ pc'[c] = "exec" /\ execSt'[c] # execSt[c]

\* the reply execCommand stores for the queued frame f run on the store st
QueuedReply(f, st) ==
    IF ToUpper(f.bytes.Array[1].String) \notin Commands
    THEN NewError(<<"ERR unknown command '">>
                  \o ToUpper(f.bytes.Array[1].String) \o <<"'">>)
    ELSE StoreHandler(ToUpper(f.bytes.Array[1].String), st,
                      Tail(f.bytes.Array), now).reply

\* C12: EXEC in a transaction takes the queue of the connection and leaves
\* the transaction with an empty queue; each turn of its loop runs the first
\* command still queued and appends its reply to the results; EXEC replies
\* the array of the results when no command is left
C12_ExecRepliesInQueueOrder ==
    [][\A c \in Clients :
          /\ (pc[c] = "idle" /\ pc'[c] = "exec")
             => /\ execSt'[c] = [queuedCommands |-> clientStates[c].QueuedCommands,
                                 results |-> <<>>]
                /\ clientStates'[c] = NewClientState
          /\ ExecTurn(c)
             => /\ Len(execSt[c].queuedCommands) > 0
                /\ execSt'[c].queuedCommands = Tail(execSt[c].queuedCommands)
                /\ execSt'[c].results =
                       Append(execSt[c].results,
                              QueuedReply(Head(execSt[c].queuedCommands), store))
          /\ (pc[c] = "exec" /\ pc'[c] # "exec")
             => /\ Len(execSt[c].queuedCommands) = 0
                /\ resp'[c].response = NewArray(execSt[c].results)
                /\ clientStates'[c] = NewClientState]_vars

\* the client has the reply of MULTI, SET k 1, GET k, EXEC
C12_Witness ==
    /\ cur["c1"].bytes = Command(<<<<"EXEC">>>>)
    /\ lastReply["c1"] =
           NewArray(<<NewSimpleString(<<"OK">>), NewBulkString(<<"1">>)>>)
    /\ clientStates["c1"] = NewClientState

\* C13: a queued command that fails in EXEC has its error at its place in
\* the results, the store keeps what the earlier commands wrote, and the
\* loop goes on with the commands queued after it
C13_ExecGoesOnAfterError ==
    [][\A c \in Clients :
          (ExecTurn(c)
           /\ QueuedReply(Head(execSt[c].queuedCommands), store).Type = Error)
          => /\ execSt'[c].results[Len(execSt[c].results) + 1].Type = Error
             /\ Len(execSt'[c].results) = Len(execSt[c].results) + 1
             /\ execSt'[c].queuedCommands = Tail(execSt[c].queuedCommands)
             /\ store' = store]_vars

\* the client has the reply of MULTI, SET k 1, DEL k, GET k, EXEC: the error
\* of DEL between the replies of SET and GET, and the store holds k = 1
C13_Witness ==
    /\ cur["c1"].bytes = Command(<<<<"EXEC">>>>)
    /\ Len(lastReply["c1"].Array) = 3
    /\ lastReply["c1"].Array[1] = NewSimpleString(<<"OK">>)
    /\ lastReply["c1"].Array[2].Type = Error
    /\ lastReply["c1"].Array[3] = NewBulkString(<<"1">>)
    /\ Get(store, <<"k">>, now).value = <<"1">>

\* the connection c starts on a frame with the words of cmd
Starts(c, words) ==
    pc[c] = "idle" /\ pc'[c] # "idle" /\ cur'[c].bytes = Command(words)

\* C14: EXEC and DISCARD on a connection that is not in a transaction reply
\* their error and leave the session and the store as they were
C14_ExecDiscardOutsideTransaction ==
    [][\A c \in Clients :
          /\ (Starts(c, <<<<"EXEC">>>>) /\ ~clientStates[c].InTransaction)
             => /\ resp'[c].response = NewError(<<"ERR EXEC without MULTI">>)
                /\ clientStates'[c] = clientStates[c]
                /\ store' = store
          /\ (Starts(c, <<<<"DISCARD">>>>) /\ ~clientStates[c].InTransaction)
             => /\ resp'[c].response = NewError(<<"ERR DISCARD without MULTI">>)
                /\ clientStates'[c] = clientStates[c]
                /\ store' = store]_vars

\* a client has the error of a DISCARD and is being answered the error of
\* an EXEC, neither in a transaction
C14_Witness ==
    \E c \in Clients :
        /\ lastReply[c] = NewError(<<"ERR DISCARD without MULTI">>)
        /\ cur[c].bytes = Command(<<<<"EXEC">>>>)
        /\ resp[c].response = NewError(<<"ERR EXEC without MULTI">>)
        /\ clientStates[c] = NewClientState

\* the command number n is in the queue of a session or of an EXEC in
\* progress, or is the command a connection is working on
Held(n) ==
    \E c \in Conns :
        \/ \E i \in 1..Len(clientStates[c].QueuedCommands) :
              clientStates[c].QueuedCommands[i].id[2] = n
        \/ \E i \in 1..Len(execSt[c].queuedCommands) :
              execSt[c].queuedCommands[i].id[2] = n
        \/ pc[c] # "idle" /\ cur[c].id[2] = n

\* C15: DISCARD in a transaction replies +OK, leaves the transaction and
\* drops the queued commands without a change of the store or a frame to
\* the replicas; a command is run or queued only when it arrives or while
\* it is held, so a dropped command is never run; the store changes only
\* when a command is run; and an EXEC that follows is an error
C15_DiscardDropsQueue ==
    [][/\ \A c \in Clients :
             /\ (Starts(c, <<<<"DISCARD">>>>) /\ clientStates[c].InTransaction)
                => /\ resp'[c].response = NewSimpleString(<<"OK">>)
                   /\ clientStates'[c] = NewClientState
                   /\ store' = store /\ wire' = wire /\ log' = log
                   /\ \A n \in 1..MaxTxCmds :
                         (\E i \in 1..Len(clientStates[c].QueuedCommands) :
                             clientStates[c].QueuedCommands[i].id[2] = n)
                         => ~Held(n)'
             /\ (Starts(c, <<<<"EXEC">>>>) /\ ~clientStates[c].InTransaction)
                => resp'[c].response.Type = Error
       /\ \A n \in 1..MaxTxCmds :
             ((InLog(n)' /\ ~InLog(n)) \/ (Held(n)' /\ ~Held(n)))
             => (Held(n) \/ n = issued + 1)
       /\ store' # store => \E n \in 1..MaxTxCmds : InLog(n)' /\ ~InLog(n)]_vars

\* one client has sent MULTI, a command that was queued, DISCARD and EXEC:
\* the EXEC is an error and the store is empty
C15_Witness ==
    \E c \in Clients :
        /\ issued = 4
        /\ \A o \in Clients \ {c} : cur[o] = NoFrame
        /\ LogIds = <<<<c, 1>>, <<c, 4>>>>
        /\ lastReply[c] = NewSimpleString(<<"OK">>)
        /\ cur[c].bytes = Command(<<<<"EXEC">>>>)
        /\ resp[c].response = NewError(<<"ERR EXEC without MULTI">>)
        /\ ~Get(store, <<"k">>, now).exists

(***************************************************************************)
(* Blocking reads: what XREAD promises.                                    *)
(***************************************************************************)
\* the frame is an XREAD whose first argument is not BLOCK
XreadWithoutBlock(f) ==
    /\ f.bytes.Type = Array
    /\ Len(f.bytes.Array) > 1
    /\ ToUpper(f.bytes.Array[1].String) = <<"XREAD">>
    /\ ToUpper(f.bytes.Array[2].String) # <<"BLOCK">>

\* connection c is inside handleBlockingRead
Blocked(c) == pc[c] \in {"xreg", "xwait"}

\* the blocked clients of the StreamManager in clients that a call of
\* connection c has registered, as (key, position)
RegisteredBy(c, clients) ==
    {p \in UNION {{key} \X (1..Len(clients[key])) : key \in Keys} :
        clients[p[1]][p[2]].resultCh[1] = c}

\* C16: a connection whose command is an XREAD without BLOCK is never inside
\* the blocking read and has no blocked client registered: it is answered at
\* once, whatever the streams hold
C16_XreadWithoutBlockNeverWaits ==
    \A c \in Clients :
        XreadWithoutBlock(cur[c])
            => ~Blocked(c) /\ RegisteredBy(c, blockedClients) = {}

\* handleBlockingRead of connection c returns in this step
XReadReturns(c) == pc[c] = "xwait" /\ pc'[c] # "xwait"

\* r is the reply with the entries of one stream: one element, the key of
\* one of the streams of the call of c and entries of that stream
OneStream(c, r) ==
    /\ r.Type = Array
    /\ Len(r.Array) = 1
    /\ r.Array[1].Type = Array
    /\ Len(r.Array[1].Array) = 2
    /\ \E i \in 1..Len(xreadSt[c].keys) :
          /\ r.Array[1].Array[1] = NewBulkString(xreadSt[c].keys[i].String)
          /\ r.Array[1].Array[2].Type = Array
          /\ Len(r.Array[1].Array[2].Array) > 0
          /\ \A n \in 1..Len(r.Array[1].Array[2].Array) :
                \E entry \in SeqRange(GetStream(store, xreadSt[c].keys[i].String,
                                                 now).stream) :
                    r.Array[1].Array[2].Array[n] = EntryArray(entry)

\* C17: when handleBlockingRead returns, the StreamManager holds no blocked
\* client of that connection for any key, and the reply is the null bulk
\* string, only for a timeout above 0 that has elapsed, or the entries of
\* exactly one stream
C17_BlockingReadLeavesNoRegistration ==
    [][\A c \in Clients :
          XReadReturns(c)
              => /\ RegisteredBy(c, blockedClients') = {}
                 /\ \/ /\ resp'[c].response = NewNullBulkString
                       /\ xreadSt[c].blockMs > 0
                       /\ now >= xreadSt[c].endTime
                    \/ OneStream(c, resp'[c].response)]_vars

\* a blocking read has returned with the entries of a stream
C17_Witness ==
    \E c \in Clients :
        /\ pc[c] = "reply"
        /\ xreadSt[c].hasBlock
        /\ xreadSt[c].firstResultCh # NoResult
        /\ RegisteredBy(c, blockedClients) = {}
        /\ OneStream(c, resp[c].response)

\* connection c is inside an XREAD BLOCK 0 whose stream index has an
\* explicit start ID, and the stream holds an entry after that ID: an XADD
\* has appended it after the XREAD was received, for the XREAD found none
Owed(c, index) ==
    /\ Blocked(c)
    /\ xreadSt[c].hasBlock
    /\ xreadSt[c].blockMs = 0
    /\ index \in 1..Len(xreadSt[c].keys)
    /\ xreadSt[c].ids[index].String # <<"$">>
    /\ Len(StreamEntries(
              GetStream(store, xreadSt[c].keys[index].String, now).stream,
              parseRangeID(xreadSt[c].ids[index].String, FALSE,
                           xreadSt[c].keys[index].String, store, now))) > 0

\* C18: a connection blocked in XREAD BLOCK 0 on a key with an explicit
\* start ID, to which an XADD has appended an entry after that ID,
\* eventually leaves the blocking read with a reply
C18_BlockedReadGetsNewEntry ==
    \A c \in Clients : \A index \in 1..2 : Owed(c, index) ~> ~Blocked(c)

(***************************************************************************)
(* Expiry: what the readers see of a key whose TTL has passed.             *)
(***************************************************************************)
\* C19: a key whose expiry instant has passed is absent to every reader,
\* deleted or not: GET replies the null bulk string, KEYS leaves it out, TYPE
\* replies none, SET NX sets it and SET XX does not
C19_ExpiredKeyIsAbsent ==
    \A key \in Keys :
        Expired(store, key, now)
            => /\ getCommand(store, <<NewBulkString(key)>>, now) = NewNullBulkString
               /\ NewBulkString(key) \notin
                      SeqRange(keysCommand(store, <<NewBulkString(<<"*">>)>>, now).Array)
               /\ keysCommand(store, <<NewBulkString(key)>>, now) = NewArray(<<>>)
               /\ typeCommand(store, <<NewBulkString(key)>>, now)
                      = NewSimpleString(<<"none">>)
               /\ setCommand(store, <<NewBulkString(key), NewBulkString(<<"3">>),
                                      NewBulkString(<<"NX">>)>>, now).reply
                      = NewSimpleString(<<"OK">>)
               /\ setCommand(store, <<NewBulkString(key), NewBulkString(<<"4">>),
                                      NewBulkString(<<"XX">>)>>, now).reply
                      = NewNullBulkString

\* the client has the null reply of a GET for a key that has expired and is
\* still in the map
C19_Witness ==
    /\ Expired(store, <<"k">>, now)
    /\ store.data[<<"k">>].type = "string"
    /\ cur["c1"].bytes = Command(<<<<"GET">>, <<"k">>>>)
    /\ pc["c1"] = "idle"
    /\ lastReply["c1"] = NewNullBulkString

(***************************************************************************)
(* Frames that are no commands.                                            *)
(***************************************************************************)
\* the frame of connection c is no non-empty array that starts with a bulk
\* string
Malformed(c) ==
    /\ cur[c].id # NoId
    /\ ~(/\ cur[c].bytes.Type = Array
         /\ Len(cur[c].bytes.Array) > 0
         /\ cur[c].bytes.Array[1].Type = BulkString)

\* C20: a frame that is no non-empty array of bulk strings gets a RESP error
\* as its reply, and the server keeps running: the connection goes back to
\* read its next frame, no goroutine panics and no connection is cut off
C20_MalformedFrameRejected ==
    \A c \in Clients :
        Malformed(c)
            => /\ pc[c] \in {"reply", "idle"}
               /\ pc[c] = "reply" => resp[c].response.Type = Error
               /\ pc[c] = "idle" => lastReply[c].Type = Error
               /\ \A o \in Clients : pc[o] # "exited"

(***************************************************************************)
(* Replication: the replica table and the connections.                     *)
(***************************************************************************)
\* C21: the replica table holds no record of a connection that the primary
\* has closed, so that GetReplicaCount (INFO) and
\* GetAcknowledgedReplicaCount (WAIT) do not count it
C21_NoRecordOfClosedConnection ==
    \A r \in Replicas : connState[r] = "closed" => ~Registered(r)

\* connection c runs propagateCommand in this step
Propagates(c) == pc[c] = "prop" /\ pc'[c] = "reply"

C23_LoopOnlyAfterFullresync ==
    \A r \in Replicas :
        rpc[r] = "loop"
            => /\ RdbPos(r) > 1
               /\ wire[r][RdbPos(r) - 1].bytes.Type = SimpleString
               /\ wire[r][RdbPos(r) - 1].bytes.String[1] = "FULLRESYNC "

\* the frame the loop of connectToMaster reads in this step
LoopReads(r) == rpc[r] = "loop" /\ rpos'[r] = rpos[r] + 1

\* C24: when the loop reads a frame that is no REPLCONF GETACK, nothing is
\* written to the primary, and a command of the registry is run on the
\* store of the replica
C24_AppliedAndNotAnswered ==
    [][\A r \in Replicas :
          LoopReads(r) /\ ~IsGetAck(wire[r][rpos[r] + 1].bytes)
              => /\ toMaster'[r] = toMaster[r]
                 /\ LET respObj == wire[r][rpos[r] + 1].bytes
                    IN (/\ respObj.Type = Array
                        /\ Len(respObj.Array) > 0
                        /\ respObj.Array[1].Type = BulkString
                        /\ ToUpper(respObj.Array[1].String) \in StoreCommands)
                           => rstore'[r] =
                                 StoreHandler(ToUpper(respObj.Array[1].String),
                                              rstore[r], Tail(respObj.Array),
                                              now).store]_vars

\* the replica has read a SET, a GET that is answered with an error and a
\* command that is not in the registry: the store holds the SET and nothing
\* waits to be read by the primary
C24_Witness ==
    \E r \in Replicas :
        /\ rpc[r] = "loop"
        /\ rpos[r] = Len(wire[r])
        /\ \A frame \in {Command(<<<<"SET">>, <<"k">>, <<"1">>>>),
                          Command(<<<<"GET">>>>),
                          Command(<<<<"DEL">>, <<"k">>>>)} :
               \E i \in (RdbPos(r) + 1)..Len(wire[r]) : wire[r][i].bytes = frame
        /\ \A i \in (RdbPos(r) + 1)..Len(wire[r]) :
               wire[r][i].bytes # GetAckCommand
        /\ Get(rstore[r], <<"k">>, now).value = <<"1">>
        /\ toMaster[r] = <<>>

(***************************************************************************)
(* INCR and XADD: what they promise.                                       *)
(***************************************************************************)
IncrError == NewError(<<"ERR value is not an integer or out of range">>)

\* C25: on every store, INCR of an absent key stores 1 and replies 1; INCR of
\* a key that holds the integer n stores n + 1 and replies n + 1, or replies
\* the error and leaves the value; INCR of a key that holds another string
\* replies the error and leaves the value
C25_IncrAddsOne ==
    \A key \in Keys :
        LET got == Get(store, key, now)
            n == ParseInt64(got.value)
            r == incrCommand(store, <<NewBulkString(key)>>, now)
            after == Get(r.store, key, now)
        IN IF ~Exists(store, key, now)
           THEN r.reply = NewInteger(1) /\ after.value = <<"1">>
           ELSE got.exists
                    => IF n.ok
                       THEN \/ /\ n.val < MaxInt64
                               /\ r.reply = NewInteger(n.val + 1)
                               /\ after.value = FormatInt(n.val + 1)
                            \/ r.reply = IncrError /\ after = got
                       ELSE r.reply = IncrError /\ after = got

\* the write commands the primary has run are INCRs all
OnlyIncrs ==
    \A i \in 1..Len(log) : ToUpper(log[i].bytes.Array[1].String) = <<"INCR">>

\* the INCR of connection c has written
IncrDone(c) == \E i \in 1..Len(log) : log[i] = cur[c]

\* C26: when INCRs are all that has run on a key that was absent, no two
\* connections have the same reply, and once no INCR is between its read
\* and its write the key holds the number of INCRs that have run
C26_IncrIsAtomic ==
    OnlyIncrs
        => /\ \A c1 \in Clients : \A c2 \in Clients \ {c1} :
                  IncrDone(c1) /\ IncrDone(c2)
                      => resp[c1].response # resp[c2].response
           /\ (Len(log) > 0 /\ \A c \in Clients : pc[c] # "incrw")
                  => Get(store, <<"k">>, now).value = FormatInt(Len(log))

\* the XADD of connection c has returned an ID
XaddDone(c) ==
    /\ \E i \in 1..Len(log) : log[i] = cur[c]
    /\ resp[c].response.Type = BulkString

\* C27: the entry of every XADD that has returned an ID is in the stream,
\* and no ID is in the stream twice
C27_XaddIsAtomic ==
    LET stream == GetStream(store, <<"s">>, now).stream
    IN /\ \A c \in Clients :
              XaddDone(c)
                  => \E i \in 1..Len(stream) : stream[i].ID = resp[c].response.String
       /\ \A i \in 1..Len(stream) : \A j \in 1..Len(stream) :
              stream[i].ID = stream[j].ID => i = j

\* the store holds the entries of the *Stream it points to
StoreHoldsStream ==
    \A key \in StreamKeys :
        LET got == GetStream(store, key, now)
        IN IF got.exists THEN got.stream = streams.Entries[streams.at[key]]
           ELSE streams.at[key] = NoId

ErrXaddZero == NewError(<<"ERR The ID specified in XADD must be greater than 0-0">>)
ErrXaddSmaller ==
    NewError(<<"ERR The ID specified in XADD is equal or smaller than the target stream top item">>)

\* C28: on every stream, XADD with the explicit ID 0-0 replies the error
\* `must be greater than 0-0`, XADD with another explicit ID that is not
\* greater than the ID of the last entry replies the error `equal or
\* smaller than the target stream top item`, and both leave the store as it is
C28_BadExplicitIdRejected ==
    \A key \in StreamKeys : \A id \in IdTexts :
        LET stream == GetStream(store, key, now).stream
            p == splitStreamID(id)
            zero == p.ms = 0 /\ p.seq = 0
            last == splitStreamID(stream[Len(stream)].ID)
            r == xaddCommand(store,
                             <<NewBulkString(key), NewBulkString(id),
                               NewBulkString(<<"f">>), NewBulkString(<<"v">>)>>,
                             now)
        IN p.ok
              => /\ zero => r.reply = ErrXaddZero /\ r.store = store
                 /\ (/\ ~zero
                     /\ Len(stream) > 0
                     /\ compareStreamIDs(p.ms, p.seq, last.ms, last.seq) <= 0)
                        => r.reply = ErrXaddSmaller /\ r.store = store

\* an XADD has been refused because its ID is not greater than the last one
C28_Witness ==
    /\ reply = ErrXaddSmaller
    /\ \E key \in StreamKeys : Len(GetStream(store, key, now).stream) > 1

(***************************************************************************)
(* RESP: what Marshal and Parse promise.                                   *)
(***************************************************************************)
\* the bytes of the values of sent from the i-th on
RECURSIVE BytesFrom(_, _)
BytesFrom(sent, i) ==
    IF i > Len(sent) THEN <<>> ELSE Marshal(sent[i]) \o BytesFrom(sent, i + 1)

\* C29: the values parsed out of the connection are the values marshalled
\* into it, in their order, and the bytes not read yet are the bytes of the
\* values not parsed yet: Parse has read the bytes of each value and no more
C29_ParseInvertsMarshal ==
    /\ Len(pipe.received) <= Len(pipe.sent)
    /\ \A i \in 1..Len(pipe.received) : pipe.received[i] = pipe.sent[i]
    /\ pipe.bytes = BytesFrom(pipe.sent, Len(pipe.received) + 1)

\* a null array and then an array of arrays have been written and parsed
C29_Witness ==
    /\ Len(pipe.received) = 2
    /\ pipe.received[1] = NewNullArray
    /\ pipe.received[2] =
           NewArray(<<NewArray(<<NewBulkString(<<"a">>), NewInteger(-1)>>),
                      NewArray(<<NewNullBulkString>>)>>)
    /\ pipe.bytes = <<>>

\* C30: when the load of the RDB file at startup has failed, the server goes
\* on with an empty store: no key of the file is visible to a command
C30_FailedLoadLeavesStoreEmpty ==
    rdb = "failed" => StoreKeys(store, now) = {}

\* the load of a file has failed after a key of the file was read
C30_KeyOfFailedFileVisible ==
    /\ rdb = "failed"
    /\ \E c \in Clients : /\ pc[c] = "idle"
                          /\ lastReply[c] = NewBulkString(<<"1">>)

\* C31: MULTI on a connection in a transaction replies +OK and leaves the
\* connection in a transaction with an empty queue, the store as it was; an
\* EXEC on a connection in a transaction with an empty queue runs no command
\* and replies the empty array
C31_NestedMultiResetsQueue ==
    [][\A c \in Clients :
          /\ (Starts(c, <<<<"MULTI">>>>) /\ clientStates[c].InTransaction)
             => /\ resp'[c].response = NewSimpleString(<<"OK">>)
                /\ clientStates'[c] = [InTransaction |-> TRUE, QueuedCommands |-> <<>>]
                /\ store' = store
          /\ (/\ Starts(c, <<<<"EXEC">>>>)
              /\ clientStates[c] = [InTransaction |-> TRUE, QueuedCommands |-> <<>>])
             => /\ pc'[c] = "exec"
                /\ execSt'[c] = [queuedCommands |-> <<>>, results |-> <<>>]
                /\ store' = store
          /\ (/\ pc[c] = "exec" /\ execSt[c].queuedCommands = <<>>
              /\ execSt[c].results = <<>> /\ pc'[c] # "exec")
             => /\ resp'[c].response = NewArray(<<>>)
                /\ store' = store]_vars

\* a connection whose last reply was +QUEUED is being answered +OK to a
\* MULTI, and its queue is empty
C31_Witness ==
    \E c \in Clients :
        /\ cur[c].bytes = Command(<<<<"MULTI">>>>)
        /\ pc[c] # "idle"
        /\ lastReply[c] = NewSimpleString(<<"QUEUED">>)
        /\ resp[c].response = NewSimpleString(<<"OK">>)
        /\ clientStates[c] = [InTransaction |-> TRUE, QueuedCommands |-> <<>>]

\* the entries of stream whose ID is greater than the ID startID
NewerEntries(stream, startID) ==
    LET start == splitStreamID(startID)
        Newer(entry) ==
            LET id == splitStreamID(entry.ID)
            IN id.ms > start.ms \/ (id.ms = start.ms /\ id.seq > start.seq)
    IN SelectSeq(stream, Newer)

\* what is on the channel ch of a call in progress
OnChannel(ch) == xreadSt[ch[1]].resultChs[ch[3]]

\* C32: a client registered with `$` has as start ID the ID of the last
\* entry the stream has at that moment, 0-0 when the key has no stream or an
\* empty one; a run of NotifyNewEntry sends to each client of the key the
\* entries whose ID is greater than its start ID, all of them and in order,
\* and takes it off the list, and leaves on the list, with nothing sent, the
\* clients for which there is no such entry; a client on the list has been
\* sent nothing, and what a channel holds is never replaced
C32_NotifyDeliversNewerEntries ==
    [][/\ \A key \in Keys :
             LET clients == blockedClients[key]
                 stream == GetStream(store, key, now).stream
                 Sent(n) == NewerEntries(stream, clients[n].startID)
                 Stays(client) ==
                     NewerEntries(stream, client.startID) = <<>>
             IN /\ Len(blockedClients'[key]) = Len(clients) + 1
                   => LET new == blockedClients'[key][Len(clients) + 1]
                      IN  xreadSt[new.resultCh[1]].ids[new.resultCh[3]].String = <<"$">>
                          => new.startID = IF Len(stream) > 0
                                           THEN stream[Len(stream)].ID
                                           ELSE <<"0", "-", "0">>
                /\ notifying'[key] < notifying[key]
                   => /\ blockedClients'[key] = SelectSeq(clients, Stays)
                      /\ \A n \in 1..Len(clients) :
                            \E ch \in {clients[n].resultCh} :
                               xreadSt'[ch[1]].resultChs[ch[3]] =
                                   IF Sent(n) = <<>> THEN NoResult
                                   ELSE <<NewBulkString(key),
                                          NewArray([i \in 1..Len(Sent(n)) |->
                                                       EntryArray(Sent(n)[i])])>>
                /\ \A n \in 1..Len(clients) : OnChannel(clients[n].resultCh) = NoResult
       /\ \A c \in Clients :
             (pc[c] \in {"xreg", "xwait"} /\ pc'[c] \in {"xreg", "xwait"})
             => \A i \in 1..Len(xreadSt[c].keys) :
                   xreadSt[c].resultChs[i] # NoResult
                   => xreadSt'[c].resultChs[i] = xreadSt[c].resultChs[i]]_vars

\* the stream holds 1-1 and 2-1 and a client that blocked from `$` when the
\* stream held 1-1 has the entry 2-1, and no other, on its channel
C32_Witness ==
    \E c \in Clients :
        /\ pc[c] = "xwait"
        /\ xreadSt[c].ids[1].String = <<"$">>
        /\ Len(GetStream(store, <<"s">>, now).stream) = 2
        /\ xreadSt[c].resultChs[1] =
               <<NewBulkString(<<"s">>),
                 NewArray(<<EntryArray(GetStream(store, <<"s">>, now).stream[2])>>)>>

\* C33: on a server that is not a replica, a turn of the loop of EXEC that
\* runs a queued SET or XADD writes the frame of the command to the replicas
\* of the table and increases the offset, and the turns take the commands in
\* queue order; a turn that runs another command writes nothing to the
\* replicas and leaves the offset; on a replica no step of an EXEC writes to
\* the replicas or changes the offset
C33_ExecPropagatesQueuedWrites ==
    [][\A c \in Clients :
          /\ ExecTurn(c)
             => LET f == Head(execSt[c].queuedCommands)
                    isWrite == ToUpper(f.bytes.Array[1].String) \in {<<"SET">>, <<"XADD">>}
                IN  /\ execSt'[c].queuedCommands = Tail(execSt[c].queuedCommands)
                    /\ IF isWrite /\ ~config.IsReplica
                       THEN /\ currentOffset' > currentOffset
                            /\ \A i \in 1..Len(replicas) :
                                  wire'[replicas[i].Conn] =
                                      Append(wire[replicas[i].Conn], f)
                       ELSE /\ currentOffset' = currentOffset
                            /\ wire' = wire
          /\ (/\ config.IsReplica
              /\ cur'[c].bytes = Command(<<<<"EXEC">>>>)
              /\ <<pc[c], execSt[c], resp[c], lastReply[c]>>
                     # <<pc'[c], execSt'[c], resp'[c], lastReply'[c]>>)
             => /\ currentOffset' = currentOffset
                /\ wire' = wire]_vars

\* a server that is not a replica has run MULTI, SET, GET, XADD and EXEC: the
\* client has the three results, and the replica has been sent the frame of
\* the SET and then that of the XADD, and not that of the GET
C33_Witness ==
    /\ ~config.IsReplica
    /\ Len(lastReply["c1"].Array) = 3
    /\ \E i \in 1..Len(wire["r1"]) :
          /\ i < Len(wire["r1"])
          /\ wire["r1"][i].bytes = Command(<<<<"SET">>, <<"k">>, <<"1">>>>)
          /\ wire["r1"][i + 1].bytes =
                 Command(<<<<"XADD">>, <<"s">>, <<"1", "-", "1">>, <<"f">>, <<"v">>>>)
          /\ wire["r1"][i].id[2] + 2 = wire["r1"][i + 1].id[2]
    /\ \A i \in 1..Len(wire["r1"]) :
          wire["r1"][i].bytes # Command(<<<<"GET">>, <<"k">>>>)

\* C34: Parse on bytes that are no well-formed frame returns an error: it
\* returns no value and the goroutine does not panic
C34_MalformedIsError ==
    [][(pipe.bytes \in MalformedFrames /\ pipe' # pipe)
       => /\ ~pipe'.panic
          /\ pipe'.received = Append(pipe.received, ZeroRESP)]_vars

\* C35: the reply of XRANGE has, for every entry, the fields and values that
\* were given to the XADD that appended it, all of them and in that order
C35_FieldsInGivenOrder ==
    reply.Type = Array
    => \A n \in 1..Len(reply.Array) :
          \E i \in 1..Len(log) :
             /\ log[i].bytes.Array[3] = reply.Array[n].Array[1]
             /\ reply.Array[n].Array[2].Array =
                    SubSeq(log[i].bytes.Array, 4, Len(log[i].bytes.Array))

(***************************************************************************)
(* A primary, one replica connected before the first write, and one client *)
(* that writes (SpecAgree).                                                *)
(***************************************************************************)
\* most commands the client of SpecAgree sends
MaxAgreeCmds == 3

AgreeCommands ==
    {Command(<<<<"SET">>, <<"k">>, <<"1">>>>),
     Command(<<<<"XADD">>, <<"s">>, <<"*">>, <<"f">>, <<"v">>>>),
     Command(<<<<"XADD">>, <<"s">>, <<"1", "-", "*">>, <<"f">>, <<"v">>>>),
     Command(<<<<"XADD">>, <<"s">>, <<"1", "-", "1">>, <<"f">>, <<"v">>>>),
     Command(<<<<"MULTI">>>>), Command(<<<<"EXEC">>>>),
     Command(<<<<"DISCARD">>>>)}

\* the client writes once the replica is in the table and in its loop
AgreeCommand(cmd) ==
    /\ Len(replicas) > 0
    /\ rpc["r1"] = "loop"
    /\ ClientCommand("c1", cmd, MaxAgreeCmds)

NextAgree ==
    \/ \E cmd \in AgreeCommands : AgreeCommand(cmd)
    \/ TxStep("c1")
    \/ ReplicaCommand("r1")
    \/ Incr("r1")
    \/ WriteReply("r1")
    \/ WriteExtra("r1")
    \/ ReplicaStep("r1")
    \/ Tick

SpecAgree == Init /\ [][NextAgree]_vars

\* the IDs of the entries of a stream, in stored order
EntryIDs(st, key) ==
    IF st.data[key].type = "stream"
    THEN [i \in 1..Len(st.data[key].Entries) |-> st.data[key].Entries[i].ID]
    ELSE <<>>

\* the replica has read every frame the primary wrote to it, and the client
\* is between two commands
ReplicaCaughtUp(r) ==
    /\ rpc[r] = "loop"
    /\ rpos[r] = Len(wire[r])
    /\ pc["c1"] = "idle"

\* C36: once the replica has applied every propagated frame, every key has
\* the same type and value on the primary and on the replica, and every
\* stream has the same sequence of entry IDs
C36_StoresAgree ==
    ReplicaCaughtUp("r1") =>
        \A key \in Keys :
            /\ store.data[key].type = rstore["r1"].data[key].type
            /\ store.data[key].type = "string" =>
                   store.data[key].str = rstore["r1"].data[key].str
            /\ EntryIDs(store, key) = EntryIDs(rstore["r1"], key)

\* the replica has applied a propagated XADD
C36_XaddApplied ==
    /\ ReplicaCaughtUp("r1")
    /\ Len(EntryIDs(rstore["r1"], <<"s">>)) > 0

(***************************************************************************)
(* A primary, one replica in its propagation loop, and one client that     *)
(* writes and then waits (SpecWait).                                       *)
(***************************************************************************)
\* most commands the client of SpecWait sends
MaxWaitCmds == 3

\* a SET that succeeds, a SET and an XADD that reply an error, and WAIT
WaitCommands ==
    {Command(<<<<"SET">>, <<"k">>, <<"1">>>>),
     Command(<<<<"SET">>, <<"k">>>>),
     Command(<<<<"XADD">>, <<"s">>, <<"0", "-", "0">>, <<"f">>, <<"v">>>>),
     Command(<<<<"WAIT">>, <<"1">>, <<"1">>>>)}

\* the client sends a command once the replica is in the table and in its
\* loop
WaitCommand(cmd) ==
    /\ Len(replicas) > 0
    /\ rpc["r1"] = "loop"
    /\ ClientCommand("c1", cmd, MaxWaitCmds)

NextWait ==
    \/ \E cmd \in WaitCommands : WaitCommand(cmd)
    \/ Incr("c1")
    \/ Propagate("c1")
    \/ WriteReply("c1")
    \/ Incr2("c1")
    \/ WaitPoll("c1")
    \/ WaitTick
    \/ ReplicaCommand("r1")
    \/ Incr("r1")
    \/ WriteReply("r1")
    \/ WriteExtra("r1")
    \/ ReplicaStep("r1")

SpecWait == Init /\ [][NextWait]_vars

\* the replica has read every frame the primary wrote to it, the GETACK of
\* the WAIT among them, and the primary has handled every frame the replica
\* wrote back
AckReceived(r) ==
    /\ rpc[r] = "loop"
    /\ rpos[r] = Len(wire[r])
    /\ toMaster[r] = <<>>
    /\ pc[r] = "idle"

\* C37: while a WAIT 1 t is in its loop and the replica has applied every
\* frame and its answer to the GETACK has been handled, the count of
\* acknowledged replicas is at least 1, so that the WAIT replies at least 1
C37_WaitCountsCaughtUpReplica ==
    \A c \in Clients :
        (pc[c] = "wait" /\ waitSt[c].numReplicas = 1 /\ AckReceived("r1"))
            => GetAcknowledgedReplicaCount(replicas, waitSt[c].currentOffset) >= 1

(***************************************************************************)
(* key-value-store.go: the goroutines that use the store and its RWMutex   *)
(* (SpecLock).  RLock waits while a goroutine is inside Lock or holds the  *)
(* write lock; Lock waits until no other goroutine is inside Lock, and     *)
(* then until every read lock has been given back.                         *)
(***************************************************************************)
\* the keys, values and expiries (ms, 0 for none) of the calls of SpecLock
LockKeys == {<<"k">>}
LockValues == {<<"1">>, <<"2">>}
LockExpiries == {0, 1}

varsServer == <<currentOffset, replicas, clientStates, pc, cur, resp, waitSt,
                execSt, lastReply, wire, connState, toMaster, rpc, rpos, rstore,
                rstate, rOffset, commandHistory, log, issued, blockedClients,
                notifying, xreadSt, incrSt, xaddSt, streams, pipe, rdb, config>>

\* s.mu.Lock() returns: the readers have given their locks back
LockAcquired(g) ==
    /\ mu.at[g] = "drain"
    /\ \A h \in StoreGoroutines : mu.readers[h] = 0
    /\ mu' = [mu EXCEPT !.at[g] = "locked"]
    /\ UNCHANGED <<store, now, reply>>
    /\ UNCHANGED varsServer

\* GetType(key) is called and takes the read lock
GetTypeRLock(key) ==
    /\ mu.at["type"] = "idle"
    /\ mu.w = NoOne
    /\ mu' = [mu EXCEPT !.readers["type"] = @ + 1, !.at["type"] = "exists",
                        !.args["type"] = key]
    /\ UNCHANGED <<store, now, reply>>
    /\ UNCHANGED varsServer

\* GetType calls Exists(key), which takes the read lock again
ExistsRLock ==
    /\ mu.at["type"] = "exists"
    /\ mu.w = NoOne
    /\ mu' = [mu EXCEPT !.readers["type"] = @ + 1, !.at["type"] = "inExists"]
    /\ UNCHANGED <<store, now, reply>>
    /\ UNCHANGED varsServer

\* Exists looks at the key, starts deleteExpiredKey if it has expired, gives
\* its read lock back and returns
ExistsReturn ==
    /\ mu.at["type"] = "inExists"
    /\ LET key == mu.args["type"]
           present == store.data[key].type # "none"
       IN mu' = [mu EXCEPT !.readers["type"] = @ - 1,
                           !.at["type"] = "afterExists",
                           !.exists = Exists(store, key, now),
                           !.scheduled =
                               IF present /\ Expired(store, key, now)
                               THEN @ \cup {key} ELSE @]
    /\ UNCHANGED <<store, now, reply>>
    /\ UNCHANGED varsServer

\* GetType finds the type, gives its read lock back and returns
GetTypeReturn ==
    /\ mu.at["type"] = "afterExists"
    /\ LET key == mu.args["type"]
       IN reply' = NewSimpleString(
                       IF ~mu.exists THEN <<"none">>
                       ELSE IF store.data[key].type = "string" THEN <<"string">>
                       ELSE IF store.data[key].type = "stream" THEN <<"stream">>
                       ELSE <<"none">>)
    /\ mu' = [mu EXCEPT !.readers["type"] = @ - 1, !.at["type"] = "idle"]
    /\ UNCHANGED <<store, now>>
    /\ UNCHANGED varsServer

\* Get(key) is called and takes the read lock
GetRLock(key) ==
    /\ mu.at["get"] = "idle"
    /\ mu.w = NoOne
    /\ mu' = [mu EXCEPT !.readers["get"] = @ + 1, !.at["get"] = "inGet",
                        !.args["get"] = key]
    /\ UNCHANGED <<store, now, reply>>
    /\ UNCHANGED varsServer

\* Get looks at the key, starts deleteExpiredKey if it has expired, gives
\* its read lock back and returns
GetReturn ==
    /\ mu.at["get"] = "inGet"
    /\ LET key == mu.args["get"]
       IN /\ reply' = getCommand(store, <<NewBulkString(key)>>, now)
          /\ mu' = [mu EXCEPT !.readers["get"] = @ - 1, !.at["get"] = "idle",
                              !.scheduled = IF Expired(store, key, now)
                                            THEN @ \cup {key} ELSE @]
    /\ UNCHANGED <<store, now>>
    /\ UNCHANGED varsServer

\* Set(key, value, expiry) is called
SetLock(key, value, expiry) ==
    /\ mu.at["set"] = "idle"
    /\ mu.w = NoOne
    /\ mu' = [mu EXCEPT !.w = "set", !.at["set"] = "drain",
                        !.args["set"] = <<key, value, expiry>>]
    /\ UNCHANGED <<store, now, reply>>
    /\ UNCHANGED varsServer

\* Set writes and gives the write lock back
SetUnlock ==
    /\ mu.at["set"] = "locked"
    /\ LET a == mu.args["set"]
       IN store' = Set(store, a[1], StringValue(a[2]), a[3], now)
    /\ mu' = [mu EXCEPT !.w = NoOne, !.at["set"] = "idle"]
    /\ UNCHANGED <<now, reply>>
    /\ UNCHANGED varsServer

\* a deleteExpiredKey(key) that a reader started begins to run
DeleterLock(key) ==
    /\ mu.at["deleter"] = "idle"
    /\ key \in mu.scheduled
    /\ mu.w = NoOne
    /\ mu' = [mu EXCEPT !.w = "deleter", !.at["deleter"] = "drain",
                        !.args["deleter"] = key,
                        !.scheduled = @ \ {key}]
    /\ UNCHANGED <<store, now, reply>>
    /\ UNCHANGED varsServer

\* deleteExpiredKey looks at the expiry, deletes, and gives the write lock
\* back
DeleterUnlock ==
    /\ mu.at["deleter"] = "locked"
    /\ store' = DeleteExpiredKey(store, mu.args["deleter"], now)
    /\ mu' = [mu EXCEPT !.w = NoOne, !.at["deleter"] = "idle",
                        !.spared = ~Expired(store, mu.args["deleter"], now)]
    /\ UNCHANGED <<now, reply>>
    /\ UNCHANGED varsServer

\* the ticker of cleanupExpiredKeys fires
ReaperLock ==
    /\ mu.at["reaper"] = "idle"
    /\ mu.w = NoOne
    /\ mu' = [mu EXCEPT !.w = "reaper", !.at["reaper"] = "drain"]
    /\ UNCHANGED <<store, now, reply>>
    /\ UNCHANGED varsServer

\* cleanupExpiredKeys deletes the expired keys and gives the write lock back
ReaperUnlock ==
    /\ mu.at["reaper"] = "locked"
    /\ store' = CleanupExpiredKeys(store, now)
    /\ mu' = [mu EXCEPT !.w = NoOne, !.at["reaper"] = "idle"]
    /\ UNCHANGED <<now, reply>>
    /\ UNCHANGED varsServer

NextLock ==
    \/ \E key \in LockKeys : GetTypeRLock(key)
    \/ ExistsRLock
    \/ ExistsReturn
    \/ GetTypeReturn
    \/ \E key \in LockKeys : GetRLock(key)
    \/ GetReturn
    \/ \E key \in LockKeys, value \in LockValues, expiry \in LockExpiries :
          SetLock(key, value, expiry)
    \/ SetUnlock
    \/ \E key \in LockKeys : DeleterLock(key)
    \/ DeleterUnlock
    \/ ReaperLock
    \/ ReaperUnlock
    \/ \E g \in StoreGoroutines : LockAcquired(g)
    \/ Clock

SpecLock == Init /\ [][NextLock]_vars

\* goroutine g holds a read lock and stands before an RLock that cannot
\* return while goroutine h is inside Lock
WaitsForWriter(g, h) ==
    /\ mu.at[g] = "exists"
    /\ mu.readers[g] > 0
    /\ mu.w = h

\* goroutine h is inside Lock and waits for the read lock of g
WaitsForReader(h, g) ==
    /\ mu.at[h] = "drain"
    /\ mu.readers[g] > 0

\* C38: no goroutine that holds a read lock of the store waits for a writer
\* that waits for this read lock: GetType always gets to its second RLock,
\* and the goroutines of the store never wait on each other
C38_NoCircularWait ==
    \A g, h \in StoreGoroutines : ~(WaitsForWriter(g, h) /\ WaitsForReader(h, g))

\* a step of deleteExpiredKey or of cleanupExpiredKeys that holds the write
\* lock
DeletionStep ==
    \/ mu.at["deleter"] = "locked" /\ mu'.at["deleter"] = "idle"
    \/ mu.at["reaper"] = "locked" /\ mu'.at["reaper"] = "idle"

\* C39: deleteExpiredKey and cleanupExpiredKeys leave alone every key that
\* is not expired when they run, a key without expiry and a key that was
\* set again after the deletion was scheduled among them: its value and its
\* expiry stay as they are
C39_DeletionSparesLiveKeys ==
    [][DeletionStep =>
          \A key \in Keys :
              ~Expired(store, key, now) =>
                  /\ store'.data[key] = store.data[key]
                  /\ (key \in DOMAIN store'.expiryMap) = (key \in DOMAIN store.expiryMap)
                  /\ key \in DOMAIN store.expiryMap =>
                         store'.expiryMap[key] = store.expiryMap[key]]_vars

\* a deleteExpiredKey that a reader scheduled has run after the key was set
\* again, and the key is there
C39_Witness ==
    /\ mu.spared
    /\ mu.at["deleter"] = "idle"
    /\ store.data[mu.args["deleter"]].type = "string"

(***************************************************************************)
(* The end of the propagation loop of connectToMaster (SpecDriverEnd): the *)
(* primary is another program that closes the connection, or the           *)
(* connection breaks so that every read fails.                             *)
(***************************************************************************)
\* most frames the primary of SpecDriverEnd propagates
MaxEndFrames == 3

EndFrames == {Command(<<<<"SET">>, <<"k">>, <<"1">>>>), GetAckCommand}

\* the primary writes a frame of its propagation stream
EndSend(r, frame) ==
    /\ connState[r] = "open"
    /\ \E i \in 1..Len(wire[r]) :
          /\ wire[r][i].bytes.Type = "rdb"
          /\ Len(wire[r]) - i < MaxEndFrames
    /\ MasterSend(r, frame)

\* the primary closes the connection: the reads of the replica return
\* io.EOF once the bytes written before are read
MasterCloses(r) ==
    /\ rpc[r] = "loop"
    /\ connState[r] = "open"
    /\ connState' = [connState EXCEPT ![r] = "eof"]
    /\ UNCHANGED <<wire, toMaster, rpc, rpos, rstore, rstate, rOffset,
                   commandHistory>>
    /\ UNCHANGED varsPrimary

\* the connection breaks: from now on every read of the replica returns an
\* error that is not io.EOF
ConnBreaks(r) ==
    /\ rpc[r] = "loop"
    /\ connState[r] = "open"
    /\ connState' = [connState EXCEPT ![r] = "reset"]
    /\ UNCHANGED <<wire, toMaster, rpc, rpos, rstore, rstate, rOffset,
                   commandHistory>>
    /\ UNCHANGED varsPrimary

\* Parse returns io.EOF at the top of the loop: connectToMaster returns
LoopReadEOF(r) ==
    /\ rpc[r] = "loop"
    /\ rpos[r] = Len(wire[r])
    /\ connState[r] = "eof"
    /\ rpc' = [rpc EXCEPT ![r] = "returned"]
    /\ UNCHANGED <<wire, toMaster, connState, rpos, rstore, rstate, rOffset,
                   commandHistory>>
    /\ UNCHANGED varsPrimary

\* Parse returns another error at the top of the loop: the error is printed
LoopReadError(r) ==
    /\ rpc[r] = "loop"
    /\ connState[r] = "reset"
    /\ rpc' = [rpc EXCEPT ![r] = "parse_error"]
    /\ UNCHANGED <<wire, toMaster, connState, rpos, rstore, rstate, rOffset,
                   commandHistory>>
    /\ UNCHANGED varsPrimary

\* `continue` after the error: the loop starts again
LoopContinue(r) ==
    /\ rpc[r] = "parse_error"
    /\ rpc' = [rpc EXCEPT ![r] = "loop"]
    /\ UNCHANGED <<wire, toMaster, connState, rpos, rstore, rstate, rOffset,
                   commandHistory>>
    /\ UNCHANGED varsPrimary

\* the steps of the goroutine of connectToMaster
DriverStep(r) ==
    \/ ReplicaStep(r)
    \/ LoopReadEOF(r)
    \/ LoopReadError(r)
    \/ LoopContinue(r)

NextDriverEnd ==
    \/ DriverStep("r1")
    \/ MasterReply("r1")
    \/ \E frame \in EndFrames : EndSend("r1", frame)
    \/ MasterCloses("r1")
    \/ ConnBreaks("r1")

SpecDriverEnd == Init /\ [][NextDriverEnd]_vars

\* the goroutine of connectToMaster keeps running
FairSpecDriverEnd == SpecDriverEnd /\ WF_vars(DriverStep("r1"))

\* C40: once the connection to the primary is closed or every read of it
\* fails, the propagation loop ends: connectToMaster returns
C40_DriverStops ==
    (rpc["r1"] = "loop" /\ connState["r1"] \in {"eof", "reset"})
        ~> (rpc["r1"] = "returned")

\* the propagation loop has ended after the primary closed the connection
C40_ReturnedAfterEOF ==
    rpc["r1"] = "returned" /\ connState["r1"] = "eof"

\* after io.EOF the propagation loop ends
C40_StopsAfterEOF ==
    (rpc["r1"] = "loop" /\ connState["r1"] = "eof") ~> (rpc["r1"] = "returned")

====
